---- MODULE Spec2Model ----
(***************************************************************************)
(* A model of the on-host coordinator (go-game-client): the State Store    *)
(* (ClientState), the Command Transport to the emulator (BizhawkIPC), the  *)
(* realtime client's reconnect loop (PusherClient), the heartbeat and      *)
(* watchdog tasks (App) and the swap handler (Handlers.Swap).              *)
(*                                                                         *)
(* Time is a discrete clock in seconds (now).  Every component has its own *)
(* specification over the same variables; the variables of the components  *)
(* a specification does not exercise keep their initial values.            *)
(***************************************************************************)
EXTENDS Integers, Sequences, FiniteSets, TLC

VARIABLES
    \* ---- State Store (ClientState) ----
    ping, connected, currentGame, lastHeartbeat, ready,
    startAt,            \* state.go revision: start time
    stateAt, state,     \* later revision: scheduled phase and its time
    chans,              \* every channel Subscribe has made: [cap, q, closed]
    subs,               \* the channels registered in s.subs
    nCalls,             \* number of setter calls made so far
    \* ---- Command Transport (BizhawkIPC) ----
    conn,               \* b.conn: 0 is nil, else the index of a connection
    conns,              \* every accepted connection: [open, peerOpen, reader, wire]
    listening,          \* the Listen loop: "running" or "exited"
    ctxDone,            \* the process-wide cancellation
    wmu,                \* b.wmu: 0 is free, else the sender holding it
    senders,            \* each SendLine call: [pc, c, line, result, seq]
    \* ---- correlated commands of the Command Transport ----
    pending,            \* the pending map: a set of [id, verb, c, retries, lastSend]
    nextID,             \* the next correlation id
    cmds,               \* every SendCommand call: [id, pc, c, sentAt, doneAt]
    resendNext,         \* when the resend ticker fires next
    hellos,             \* HELLO lines processed so far
    acks,               \* acknowledgment lines the readers have processed: [c, id, kind]
    \* ---- Realtime Channel Client (PusherClient) ----
    pcClient,           \* ConnectAndListen: "loop", "sleeping", "connected", "exited"
    backoff,            \* the local variable backoff, in seconds
    sleepUntil,         \* end of the current time.Sleep(backoff)
    wait,               \* length of the current or last sleep
    failures,           \* consecutive failed connectOnce calls
    attempts,           \* connectOnce calls made
    listeners,          \* listenChannel tasks: channel -> "none", "running", "exited"
    chanOpen,           \* channel -> is the bound event channel still open
    \* ---- App: heartbeat, watchdog, handlers ----
    hbNext,             \* when the heartbeat ticker fires next
    wdNext,             \* when the watchdog ticker fires next
    savedFile,          \* runtime_state.json: <<>> or <<snapshot>>
    notifiers,          \* swap-complete goroutines: [round, swapAt, pc]
    notified,           \* swap-complete attempts: [round, swapAt, at, ok]
    events,             \* realtime events handed to the handlers so far
    \* ---- State Store: its locks and the calls in progress ----
    mu,                 \* s.mu: 0 is free, else the thread holding the write lock
    subMu,              \* s.subMu: 0 is free, else the thread holding it
    thr,                \* each thread's call in progress: [pc, p, ev, todo]
    snaps,              \* the snapshots Snapshot has returned
    panicked,           \* a send on, or a close of, a closed channel has happened
    \* ---- the process: NewApp, App.Run, Handlers ----
    proc,               \* "running", or "exited" once the process has ended
    exitBy,             \* what ended the process
    runPc,              \* position of NewApp and App.Run
    loadErr,            \* what LoadFromFile returned
    kick,               \* Handlers.Kick in progress: [pc, sends]
    dropped,            \* events handleRawEvent has logged and dropped
    \* ---- the realtime listeners: listenChannel ----
    lsn,                \* channel -> [queue, busy, log, sent]
    \* ---- clock ----
    now

storeVars == <<ping, connected, currentGame, lastHeartbeat, ready,
               startAt, stateAt, state, chans, subs, nCalls>>

ipcVars == <<conn, conns, listening, ctxDone, wmu, senders>>

protoVars == <<pending, nextID, cmds, resendNext, hellos, acks>>

pusherVars == <<pcClient, backoff, sleepUntil, wait, failures, attempts, listeners,
                chanOpen>>

appVars == <<hbNext, wdNext, savedFile, notifiers, notified, events>>

concVars == <<mu, subMu, thr, snaps, panicked>>

runVars == <<proc, exitBy, runPc, loadErr, kick, dropped>>

lsnVars == <<lsn>>

vars == <<storeVars, ipcVars, protoVars, pusherVars, appVars, concVars, runVars, lsnVars, now>>

\* The store's operations constrain storeVars only; a specification that takes
\* one as a step of its own adds that the rest (nonStoreVars) is unchanged.
\* The transport's actions leave nonIPCVars unchanged.
nonStoreVars == <<ipcVars, protoVars, pusherVars, appVars, concVars, runVars, lsnVars, now>>
nonIPCVars == <<storeVars, protoVars, pusherVars, appVars, concVars, runVars, lsnVars, now>>

----------------------------------------------------------------------------
(* Bounds of the model *)

MaxCalls == 2        \* setter calls in one behaviour of the store
MaxSubs == 2         \* channels ever created by Subscribe
MaxBuf == 1          \* largest buffer size a subscriber asks for
MaxStoreClock == 1   \* the clock's range in the store's specification
MaxConns == 2        \* connections the emulator makes in one behaviour
MaxSenders == 2      \* SendLine calls in one behaviour
MaxThreads == 2      \* threads calling the store concurrently
MaxSnaps == 2        \* Snapshot calls in one behaviour of the concurrent store
MaxRunConns == 1     \* connections the emulator makes in the process specification
MaxArrivals == 2     \* events the server publishes on one channel
MaxAttempts == 7     \* connectOnce calls in one behaviour
MaxAppClock == 32    \* the clock's range in the heartbeat and watchdog specification
MaxEvents == 2       \* realtime events handled in one behaviour
MaxSwapClock == 4    \* the clock's range in the swap handler's specification
MaxCmds == 1         \* sendCommand calls in one behaviour
MaxHellos == 2       \* HELLO lines received in one behaviour
MaxProtoClock == 6   \* the clock's range in the command protocol's specification
MaxAckCmds == 2      \* sendCommand calls in the acknowledgment specification
MaxAcks == 2         \* acknowledgment lines received in one behaviour

----------------------------------------------------------------------------
(* Program constants, in seconds *)

ResendInterval == 1
MaxRetries == 3
AckWait == 5
BackoffStart == 1
BackoffCap == 30
HeartbeatPeriod == 10
WatchdogPeriod == 5
WatchdogThreshold == 15

Channels == {"player", "session"}

----------------------------------------------------------------------------
(* Values *)

\* time.Time{}: the zero instant, long before any instant of the run
ZeroTime == 0 - 1000

Pings == {7}
Games == {"g1"}
Phases == {"swap"}
Instants == {5}

\* A Go interface{} value: a dynamic type and a value of that type.
IntV(n) == [k |-> "int", n |-> n, b |-> FALSE, s |-> ""]
BoolV(b) == [k |-> "bool", n |-> 0, b |-> b, s |-> ""]
StrV(s) == [k |-> "string", n |-> 0, b |-> FALSE, s |-> s]
TimeV(t) == [k |-> "time", n |-> t, b |-> FALSE, s |-> ""]

StateEvent(typ, old, new) == [Type |-> typ, Old |-> old, New |-> new, When |-> now]

----------------------------------------------------------------------------
(* State Store *)

DefaultBuf == 4

\* Subscribe: a new buffered channel, registered in subs.
Subscribe(buf) ==
    /\ Len(chans) < MaxSubs
    /\ LET cap == IF buf <= 0 THEN DefaultBuf ELSE buf
       IN chans' = Append(chans, [cap |-> cap, q |-> <<>>, closed |-> FALSE])
    /\ subs' = subs \cup {Len(chans) + 1}
    /\ UNCHANGED <<ping, connected, currentGame, lastHeartbeat, ready,
                   startAt, stateAt, state, nCalls>>

\* Unsubscribe: closes and removes the channel if it is registered.
Unsubscribe(ch) ==
    /\ ch \in DOMAIN chans
    /\ IF ch \in subs
       THEN /\ subs' = subs \ {ch}
            /\ chans' = [chans EXCEPT ![ch].closed = TRUE]
       ELSE UNCHANGED <<subs, chans>>
    /\ UNCHANGED <<ping, connected, currentGame, lastHeartbeat, ready,
                   startAt, stateAt, state, nCalls>>

\* notify altered to stop at the first full channel instead of skipping it.
notifyStopsAtFull(cs, ev) ==
    [c \in DOMAIN cs |->
        IF /\ c \in subs
           /\ Len(cs[c].q) < cs[c].cap
           /\ \A d \in subs : d < c => Len(cs[d].q) < cs[d].cap
        THEN [cs[c] EXCEPT !.q = Append(@, ev)]
        ELSE cs[c]]

\* notify altered to make room in a full channel by dropping its oldest event.
notifyOverwritesOldest(cs, ev) ==
    [c \in DOMAIN cs |->
        IF c \in subs
        THEN IF Len(cs[c].q) < cs[c].cap
             THEN [cs[c] EXCEPT !.q = Append(@, ev)]
             ELSE [cs[c] EXCEPT !.q = Append(Tail(@), ev)]
        ELSE cs[c]]

\* notify: a non-blocking send to every registered channel; a full channel
\* drops the event.
notify(cs, ev) ==
    [c \in DOMAIN cs |->
        IF c \in subs /\ Len(cs[c].q) < cs[c].cap
        THEN [cs[c] EXCEPT !.q = Append(@, ev)]
        ELSE cs[c]]

SetPing(p) ==
    /\ ping' = p
    /\ lastHeartbeat' = now
    /\ chans' = notify(chans, StateEvent("ping_updated", IntV(ping), IntV(p)))
    /\ nCalls' = nCalls + 1
    /\ UNCHANGED <<connected, currentGame, ready, startAt, stateAt, state, subs>>

SetConnected(c) ==
    /\ connected' = c
    /\ LET typ == IF c THEN "connected" ELSE "disconnected"
       IN chans' = notify(chans, StateEvent(typ, BoolV(connected), BoolV(c)))
    /\ nCalls' = nCalls + 1
    /\ UNCHANGED <<ping, currentGame, lastHeartbeat, ready, startAt, stateAt, state,
                   subs>>

SetCurrentGame(name) ==
    /\ currentGame' = name
    /\ chans' = notify(chans,
                   StateEvent("current_game_changed", StrV(currentGame), StrV(name)))
    /\ nCalls' = nCalls + 1
    /\ UNCHANGED <<ping, connected, lastHeartbeat, ready, startAt, stateAt, state,
                   subs>>

SetReady(r) ==
    /\ ready' = r
    /\ chans' = notify(chans, StateEvent("ready_changed", BoolV(ready), BoolV(r)))
    /\ nCalls' = nCalls + 1
    /\ UNCHANGED <<ping, connected, currentGame, lastHeartbeat, startAt, stateAt,
                   state, subs>>

SetStartTime(t) ==
    /\ startAt' = t
    /\ chans' = notify(chans,
                   StateEvent("start_time_changed", TimeV(startAt), TimeV(t)))
    /\ nCalls' = nCalls + 1
    /\ UNCHANGED <<ping, connected, currentGame, lastHeartbeat, ready, stateAt,
                   state, subs>>

\* SetState: writes both fields, then notifies twice; the second event's New
\* is the time t, as in the source.
SetState(t, st) ==
    /\ stateAt' = t
    /\ state' = st
    /\ chans' = notify(
                  notify(chans,
                         StateEvent("state_time_changed", TimeV(stateAt), TimeV(t))),
                  StateEvent("state_changed", StrV(state), TimeV(t)))
    /\ nCalls' = nCalls + 1
    /\ UNCHANGED <<ping, connected, currentGame, lastHeartbeat, ready, startAt,
                   subs>>

\* A subscriber takes the oldest event from its channel.
Receive(ch) ==
    /\ ch \in DOMAIN chans
    /\ chans[ch].q # <<>>
    /\ chans' = [chans EXCEPT ![ch].q = Tail(@)]
    /\ UNCHANGED <<ping, connected, currentGame, lastHeartbeat, ready,
                   startAt, stateAt, state, subs, nCalls>>

\* Snapshot altered to copy none of the fields.
SnapshotOfNothing ==
    [Ping |-> 0, Connected |-> FALSE, CurrentGame |-> "",
     LastHeartbeat |-> ZeroTime, Ready |-> FALSE,
     StateAt |-> ZeroTime, State |-> ""]

\* Snapshot: a copy of the fields.
Snapshot ==
    [Ping |-> ping, Connected |-> connected, CurrentGame |-> currentGame,
     LastHeartbeat |-> lastHeartbeat, Ready |-> ready,
     StateAt |-> stateAt, State |-> state]

\* NewClientState: zero values, no subscriber.
StoreInit ==
    /\ ping = 0
    /\ connected = FALSE
    /\ currentGame = ""
    /\ lastHeartbeat = ZeroTime
    /\ ready = FALSE
    /\ startAt = ZeroTime
    /\ stateAt = ZeroTime
    /\ state = ""
    /\ chans = <<>>
    /\ subs = {}
    /\ nCalls = 0

----------------------------------------------------------------------------
(* Command Transport: bizhawk_ipc.go *)

Lines == {"MSG|Welcome", "PAUSE"}

NotConnected == "bizhawk not connected"
WriteError == "ipc write"
Nil == "nil"

\* NewBizhawkIPC, and no SendLine call made yet.
IPCInit ==
    /\ conn = 0
    /\ conns = <<>>
    /\ listening = "running"
    /\ ctxDone = FALSE
    /\ wmu = 0
    /\ senders = [s \in 1..MaxSenders |-> [pc |-> "idle", c |-> 0, line |-> "", result |-> "", seq |-> 0]]

CloseConn(cs, c) == [cs EXCEPT ![c].open = FALSE]

\* Accept altered to leave the previous connection open.
AcceptKeepsOld ==
    /\ listening = "running"
    /\ Len(conns) < MaxConns
    /\ conns' = Append(conns,
                  [open |-> TRUE, peerOpen |-> TRUE, reader |-> "running", wire |-> <<>>])
    /\ conn' = Len(conns) + 1
    /\ UNCHANGED <<listening, ctxDone, wmu, senders, nonIPCVars>>

\* One iteration of the accept loop that accepts a connection: the previous
\* connection, if any, is closed, the new one becomes b.conn and its reader
\* is started.
Accept ==
    /\ listening = "running"
    /\ Len(conns) < MaxConns
    /\ conns' = Append(IF conn # 0 THEN CloseConn(conns, conn) ELSE conns,
                  [open |-> TRUE, peerOpen |-> TRUE, reader |-> "running", wire |-> <<>>])
    /\ conn' = Len(conns) + 1
    /\ UNCHANGED <<listening, ctxDone, wmu, senders, nonIPCVars>>

\* Listen's deferred function altered to leave b.conn as it is.
ListenReturnLeavesConn ==
    /\ listening = "running"
    /\ ctxDone
    /\ listening' = "exited"
    /\ UNCHANGED <<conn, conns, ctxDone, wmu, senders, nonIPCVars>>

\* An accept that times out after the cancellation: Listen returns and its
\* deferred function closes the listener and the live connection.
ListenReturn ==
    /\ listening = "running"
    /\ ctxDone
    /\ listening' = "exited"
    /\ conns' = IF conn # 0 THEN CloseConn(conns, conn) ELSE conns
    /\ conn' = 0
    /\ UNCHANGED <<ctxDone, wmu, senders, nonIPCVars>>

\* The reader's cleanup altered to close and clear b.conn whichever
\* connection it is.
ReaderErrorClearsAny(c) ==
    /\ c \in DOMAIN conns
    /\ conns[c].reader = "running"
    /\ ~conns[c].peerOpen \/ ~conns[c].open
    /\ conns' = [(IF conn # 0 THEN CloseConn(conns, conn) ELSE conns)
                    EXCEPT ![c].reader = "exited"]
    /\ conn' = 0
    /\ UNCHANGED <<listening, ctxDone, wmu, senders, nonIPCVars>>

\* The reader of connection c sees EOF or a read error: it closes and clears
\* b.conn only if b.conn is still its own connection, and exits.
ReaderError(c) ==
    /\ c \in DOMAIN conns
    /\ conns[c].reader = "running"
    /\ ~conns[c].peerOpen \/ ~conns[c].open
    /\ conns' = [(IF conn = c THEN CloseConn(conns, c) ELSE conns)
                    EXCEPT ![c].reader = "exited"]
    /\ conn' = IF conn = c THEN 0 ELSE conn
    /\ UNCHANGED <<listening, ctxDone, wmu, senders, nonIPCVars>>

\* The reader of connection c sees its read deadline pass after the
\* cancellation and exits.
ReaderTimeout(c) ==
    /\ c \in DOMAIN conns
    /\ conns[c].reader = "running"
    /\ conns[c].peerOpen /\ conns[c].open
    /\ ctxDone
    /\ conns' = [conns EXCEPT ![c].reader = "exited"]
    /\ UNCHANGED <<conn, listening, ctxDone, wmu, senders, nonIPCVars>>

\* The emulator closes its end of connection c.
PeerClose(c) ==
    /\ c \in DOMAIN conns
    /\ conns[c].peerOpen
    /\ conns' = [conns EXCEPT ![c].peerOpen = FALSE]
    /\ UNCHANGED <<conn, listening, ctxDone, wmu, senders, nonIPCVars>>

\* The shutdown signal.
Cancel ==
    /\ ~ctxDone
    /\ ctxDone' = TRUE
    /\ UNCHANGED <<conn, conns, listening, wmu, senders, nonIPCVars>>

\* The SendLine calls invoked so far; a call's seq is its place in the order
\* of invocation.
Invoked == Cardinality({r \in DOMAIN senders : senders[r].pc # "idle"})

\* SendLine altered to go for the write lock without looking at b.conn.
SendLineBeginNoCheck(s, line) ==
    /\ senders[s].pc = "idle"
    /\ senders' = [senders EXCEPT ![s] = [pc |-> "lock", c |-> conn, line |-> line,
                                          result |-> "", seq |-> Invoked + 1]]
    /\ UNCHANGED <<conn, conns, listening, ctxDone, wmu, nonIPCVars>>

\* SendLine, up to the write lock: reads b.conn under the read lock and
\* returns "not connected" when it is nil.
SendLineBegin(s, line) ==
    /\ senders[s].pc = "idle"
    /\ senders' = [senders EXCEPT ![s] =
                     IF conn = 0
                     THEN [pc |-> "done", c |-> 0, line |-> line, result |-> NotConnected,
                           seq |-> Invoked + 1]
                     ELSE [pc |-> "lock", c |-> conn, line |-> line, result |-> "",
                           seq |-> Invoked + 1]]
    /\ UNCHANGED <<conn, conns, listening, ctxDone, wmu, nonIPCVars>>

\* io.WriteString on connection c: the connections after the call.  A write
\* to a connection this side has closed fails; a write to one the peer has
\* closed succeeds (ok) or fails.
WriteOK(c, ok) == c # 0 /\ conns[c].open /\ (conns[c].peerOpen \/ ok)

WriteLine(c, by, line, ok) ==
    IF WriteOK(c, ok)
    THEN [conns EXCEPT ![c].wire = Append(@, [by |-> by, line |-> line])]
    ELSE conns

\* SendLine altered to enter the write without waiting for the write lock.
SendLineLockNoWait(s) ==
    /\ senders[s].pc = "lock"
    /\ wmu' = s
    /\ senders' = [senders EXCEPT ![s].pc = "write"]
    /\ UNCHANGED <<conn, conns, listening, ctxDone, nonIPCVars>>

\* SendLine takes the write lock.
SendLineLock(s) ==
    /\ senders[s].pc = "lock"
    /\ wmu = 0
    /\ wmu' = s
    /\ senders' = [senders EXCEPT ![s].pc = "write"]
    /\ UNCHANGED <<conn, conns, listening, ctxDone, nonIPCVars>>

\* SendLine altered to return nil whatever io.WriteString returned.
SendLineWriteIgnoresError(s, ok) ==
    /\ senders[s].pc = "write"
    /\ wmu = s
    /\ conns' = WriteLine(senders[s].c, s, senders[s].line, ok)
    /\ senders' = [senders EXCEPT ![s].pc = "done", ![s].result = Nil]
    /\ wmu' = 0
    /\ UNCHANGED <<conn, listening, ctxDone, nonIPCVars>>

\* SendLine writes the line to the connection it read and releases the lock.
SendLineWrite(s, ok) ==
    /\ senders[s].pc = "write"
    /\ wmu = s
    /\ conns' = WriteLine(senders[s].c, s, senders[s].line, ok)
    /\ senders' = [senders EXCEPT
                     ![s].pc = "done",
                     ![s].result = IF WriteOK(senders[s].c, ok) THEN Nil ELSE WriteError]
    /\ wmu' = 0
    /\ UNCHANGED <<conn, listening, ctxDone, nonIPCVars>>

----------------------------------------------------------------------------
(* Initial states of the other components *)

\* No command sent, the resend ticker started.
ProtoInit ==
    /\ pending = {}
    /\ nextID = 1
    /\ cmds = <<>>
    /\ resendNext = ResendInterval
    /\ hellos = 0
    /\ acks = <<>>

\* ConnectAndListen about to run: backoff := time.Second.
PusherInit ==
    /\ pcClient = "loop"
    /\ backoff = BackoffStart
    /\ sleepUntil = 0
    /\ wait = 0
    /\ failures = 0
    /\ attempts = 0
    /\ listeners = [ch \in Channels |-> "none"]
    /\ chanOpen = [ch \in Channels |-> FALSE]

\* App.Run has started the heartbeat and watchdog tickers.
AppInit ==
    /\ hbNext = HeartbeatPeriod
    /\ wdNext = WatchdogPeriod
    /\ savedFile = <<>>
    /\ notifiers = <<>>
    /\ notified = <<>>
    /\ events = 0

\* No event has arrived on a channel; listenChannel handles none.
ListenInit ==
    lsn = [ch \in Channels |-> [queue |-> <<>>, busy |-> {}, log |-> <<>>, sent |-> 0]]

NoEvent == [Type |-> "", Old |-> IntV(0), New |-> IntV(0), When |-> 0]

\* No call on the store is in progress.
ConcInit ==
    /\ mu = 0
    /\ subMu = 0
    /\ thr = [t \in 1..MaxThreads |->
                [pc |-> "idle", ev |-> NoEvent, todo |-> {}]]
    /\ snaps = <<>>
    /\ panicked = FALSE

\* The process is up and App.Run is blocked on <-ctx.Done().
RunInit ==
    /\ proc = "running"
    /\ exitBy = ""
    /\ runPc = "serving"
    /\ loadErr = Nil
    /\ kick = [pc |-> "idle", sends |-> <<>>]
    /\ dropped = 0

----------------------------------------------------------------------------
(* The State Store under concurrent callers: the locks of state.go.  A setter
   updates the fields under s.mu and, after releasing it, notifies under
   s.subMu; Subscribe and Unsubscribe run under s.subMu; Snapshot copies the
   fields under the read lock of s.mu. *)

Threads == 1..MaxThreads

Busy == Cardinality({t \in Threads : thr[t].pc # "idle"})

\* SetPing altered to write the ping in a critical section of its own, the
\* lock being released before the heartbeat time is written.
SetPingBeginReleases(t, p) ==
    /\ thr[t].pc = "idle"
    /\ nCalls + Busy < MaxCalls
    /\ mu = 0
    /\ ping' = p
    /\ thr' = [thr EXCEPT ![t].pc = "stamp",
                          ![t].ev = StateEvent("ping_updated", IntV(ping), IntV(p))]
    /\ UNCHANGED <<connected, currentGame, lastHeartbeat, ready, startAt, stateAt, state,
                   chans, subs, nCalls, mu, subMu, snaps, panicked,
                   ipcVars, protoVars, pusherVars, appVars, runVars, lsnVars, now>>

\* SetPing: s.mu.Lock(); old := s.ping; s.ping = p
SetPingBegin(t, p) ==
    /\ thr[t].pc = "idle"
    /\ nCalls + Busy < MaxCalls
    /\ mu = 0
    /\ mu' = t
    /\ ping' = p
    /\ thr' = [thr EXCEPT ![t].pc = "stamp",
                          ![t].ev = StateEvent("ping_updated", IntV(ping), IntV(p))]
    /\ UNCHANGED <<connected, currentGame, lastHeartbeat, ready, startAt, stateAt, state,
                   chans, subs, nCalls, subMu, snaps, panicked,
                   ipcVars, protoVars, pusherVars, appVars, runVars, lsnVars, now>>

\* SetPing altered to keep s.mu while it notifies (a deferred Unlock).
SetPingEndKeepsLock(t) ==
    /\ thr[t].pc = "stamp"
    /\ mu = t
    /\ lastHeartbeat' = now
    /\ thr' = [thr EXCEPT ![t].pc = "notify"]
    /\ UNCHANGED <<ping, connected, currentGame, ready, startAt, stateAt, state,
                   chans, subs, nCalls, mu, subMu, snaps, panicked,
                   ipcVars, protoVars, pusherVars, appVars, runVars, lsnVars, now>>

\* SetPing: s.lastHeartbeat = time.Now(); s.mu.Unlock()
SetPingEnd(t) ==
    /\ thr[t].pc = "stamp"
    /\ mu = t
    /\ lastHeartbeat' = now
    /\ mu' = 0
    /\ thr' = [thr EXCEPT ![t].pc = "notify"]
    /\ UNCHANGED <<ping, connected, currentGame, ready, startAt, stateAt, state,
                   chans, subs, nCalls, subMu, snaps, panicked,
                   ipcVars, protoVars, pusherVars, appVars, runVars, lsnVars, now>>

\* SetConnected: the field is written under s.mu.
SetConnectedLocked(t, c) ==
    /\ thr[t].pc = "idle"
    /\ nCalls + Busy < MaxCalls
    /\ mu = 0
    /\ connected' = c
    /\ thr' = [thr EXCEPT ![t].pc = "notify",
                          ![t].ev = StateEvent(IF c THEN "connected" ELSE "disconnected",
                                               BoolV(connected), BoolV(c))]
    /\ UNCHANGED <<ping, currentGame, lastHeartbeat, ready, startAt, stateAt, state,
                   chans, subs, nCalls, mu, subMu, snaps, panicked,
                   ipcVars, protoVars, pusherVars, appVars, runVars, lsnVars, now>>

\* notify: s.subMu.Lock(); the loop ranges over s.subs as it is now.
NotifyLock(t) ==
    /\ thr[t].pc = "notify"
    /\ subMu = 0
    /\ subMu' = t
    /\ thr' = [thr EXCEPT ![t].pc = "sending", ![t].todo = subs]
    /\ UNCHANGED <<storeVars, mu, snaps, panicked,
                   ipcVars, protoVars, pusherVars, appVars, runVars, lsnVars, now>>

\* notify: one iteration of the loop, the non-blocking send to ch.  A send on
\* a closed channel panics.
NotifySend(t, ch) ==
    /\ thr[t].pc = "sending"
    /\ ch \in thr[t].todo
    /\ thr' = [thr EXCEPT ![t].todo = @ \ {ch}]
    /\ panicked' = (panicked \/ chans[ch].closed)
    /\ chans' = IF ~chans[ch].closed /\ Len(chans[ch].q) < chans[ch].cap
                THEN [chans EXCEPT ![ch].q = Append(@, thr[t].ev)]
                ELSE chans
    /\ UNCHANGED <<ping, connected, currentGame, lastHeartbeat, ready, startAt, stateAt,
                   state, subs, nCalls, mu, subMu, snaps,
                   ipcVars, protoVars, pusherVars, appVars, runVars, lsnVars, now>>

\* notify: the loop is over; the deferred s.subMu.Unlock() and the return of
\* the setter.
NotifyUnlock(t) ==
    /\ thr[t].pc = "sending"
    /\ thr[t].todo = {}
    /\ subMu' = 0
    /\ thr' = [thr EXCEPT ![t].pc = "idle"]
    /\ nCalls' = nCalls + 1
    /\ UNCHANGED <<ping, connected, currentGame, lastHeartbeat, ready, startAt, stateAt,
                   state, chans, subs, mu, snaps, panicked,
                   ipcVars, protoVars, pusherVars, appVars, runVars, lsnVars, now>>

\* Subscribe, under s.subMu.
SubscribeLocked(buf) ==
    /\ subMu = 0
    /\ Subscribe(buf)
    /\ UNCHANGED nonStoreVars

\* Unsubscribe altered not to take s.subMu.
UnsubscribeUnlocked(ch) ==
    /\ Unsubscribe(ch)
    /\ UNCHANGED nonStoreVars

\* Unsubscribe, under s.subMu.
UnsubscribeLocked(ch) ==
    /\ subMu = 0
    /\ Unsubscribe(ch)
    /\ UNCHANGED nonStoreVars

\* Snapshot altered to copy the fields without the read lock.
SnapshotUnlocked ==
    /\ Len(snaps) < MaxSnaps
    /\ snaps' = Append(snaps, Snapshot)
    /\ UNCHANGED <<storeVars, mu, subMu, thr, panicked,
                   ipcVars, protoVars, pusherVars, appVars, runVars, lsnVars, now>>

\* Snapshot: the fields are copied under s.mu.RLock() and the copy returned.
SnapshotLocked ==
    /\ Len(snaps) < MaxSnaps
    /\ mu = 0
    /\ snaps' = Append(snaps, Snapshot)
    /\ UNCHANGED <<storeVars, mu, subMu, thr, panicked,
                   ipcVars, protoVars, pusherVars, appVars, runVars, lsnVars, now>>

InitConc ==
    /\ StoreInit
    /\ IPCInit
    /\ ProtoInit
    /\ PusherInit
    /\ AppInit
    /\ ConcInit
    /\ ListenInit
    /\ RunInit
    /\ now = 0

NextConc ==
    \/ \E t \in Threads, p \in Pings : SetPingBegin(t, p)
    \/ \E t \in Threads : SetPingEnd(t)
    \/ \E t \in Threads, c \in BOOLEAN : SetConnectedLocked(t, c)
    \/ \E t \in Threads : NotifyLock(t)
    \/ \E t \in Threads, ch \in 1..MaxSubs : NotifySend(t, ch)
    \/ \E t \in Threads : NotifyUnlock(t)
    \/ \E buf \in 0..MaxBuf : SubscribeLocked(buf)
    \/ \E ch \in 1..MaxSubs : UnsubscribeLocked(ch)
    \/ \E ch \in 1..MaxSubs : Receive(ch) /\ UNCHANGED nonStoreVars
    \/ SnapshotLocked

SpecConc == InitConc /\ [][NextConc]_vars

----------------------------------------------------------------------------
(* The State Store's specification *)

TickStore ==
    /\ now < MaxStoreClock
    /\ now' = now + 1
    /\ UNCHANGED <<storeVars, ipcVars, protoVars, pusherVars, appVars, concVars, runVars, lsnVars>>

InitStore ==
    /\ StoreInit
    /\ IPCInit
    /\ ProtoInit
    /\ PusherInit
    /\ AppInit
    /\ ConcInit
    /\ ListenInit
    /\ RunInit
    /\ now = 0

NextStore ==
    \/ (\E buf \in 0..MaxBuf : Subscribe(buf)) /\ UNCHANGED nonStoreVars
    \/ (\E ch \in 1..MaxSubs : Unsubscribe(ch)) /\ UNCHANGED nonStoreVars
    \/ (\E ch \in 1..MaxSubs : Receive(ch)) /\ UNCHANGED nonStoreVars
    \/ nCalls < MaxCalls /\ (\E p \in Pings : SetPing(p)) /\ UNCHANGED nonStoreVars
    \/ nCalls < MaxCalls /\ (\E c \in BOOLEAN : SetConnected(c)) /\ UNCHANGED nonStoreVars
    \/ nCalls < MaxCalls /\ (\E g \in Games : SetCurrentGame(g)) /\ UNCHANGED nonStoreVars
    \/ nCalls < MaxCalls /\ (\E r \in BOOLEAN : SetReady(r)) /\ UNCHANGED nonStoreVars
    \/ nCalls < MaxCalls /\ (\E t \in Instants : SetStartTime(t)) /\ UNCHANGED nonStoreVars
    \/ nCalls < MaxCalls /\ (\E t \in Instants, st \in Phases : SetState(t, st))
          /\ UNCHANGED nonStoreVars
    \/ TickStore

SpecStore == InitStore /\ [][NextStore]_vars

----------------------------------------------------------------------------
(* The Command Transport's specification *)

InitIPC ==
    /\ StoreInit
    /\ IPCInit
    /\ ProtoInit
    /\ PusherInit
    /\ AppInit
    /\ ConcInit
    /\ ListenInit
    /\ RunInit
    /\ now = 0

NextIPC ==
    \/ Accept
    \/ ListenReturn
    \/ \E c \in 1..MaxConns : ReaderError(c)
    \/ \E c \in 1..MaxConns : ReaderTimeout(c)
    \/ \E c \in 1..MaxConns : PeerClose(c)
    \/ Cancel
    \/ \E s \in 1..MaxSenders, line \in Lines : SendLineBegin(s, line)
    \/ \E s \in 1..MaxSenders : SendLineLock(s)
    \/ \E s \in 1..MaxSenders, ok \in BOOLEAN : SendLineWrite(s, ok)

SpecIPC == InitIPC /\ [][NextIPC]_vars

----------------------------------------------------------------------------
(* Realtime Channel Client: pusher_client.go, the revision with backoff *)

Outcomes == {"connectErr", "subscribeErr", "ok"}

\* connectOnce: Connect fails; or it succeeds, connected is set, and a
\* Subscribe fails; or both channels are subscribed and their listeners start.
ConnectOnce(outcome) ==
    /\ pcClient = "loop"
    /\ ~ctxDone
    /\ attempts < MaxAttempts
    /\ attempts' = attempts + 1
    /\ IF outcome = "connectErr"
       THEN UNCHANGED storeVars
       ELSE SetConnected(TRUE)
    /\ IF outcome = "ok"
       THEN /\ listeners' = [ch \in Channels |-> "running"]
            /\ chanOpen' = [ch \in Channels |-> TRUE]
            /\ pcClient' = "succeeded"
       ELSE /\ UNCHANGED <<listeners, chanOpen>>
            /\ pcClient' = "failed"
    /\ UNCHANGED <<backoff, sleepUntil, wait, failures, ipcVars, protoVars, appVars, concVars, runVars, lsnVars, now>>

\* The top of the loop sees the cancellation and returns.
LoopExit ==
    /\ pcClient = "loop"
    /\ ctxDone
    /\ pcClient' = "exited"
    /\ UNCHANGED <<backoff, sleepUntil, wait, failures, attempts, listeners, chanOpen,
                   storeVars, ipcVars, protoVars, appVars, concVars, runVars, lsnVars, now>>

\* connectOnce returned an error: connected is set to false and the loop
\* starts time.Sleep(backoff).
ConnectFailed ==
    /\ pcClient = "failed"
    /\ SetConnected(FALSE)
    /\ failures' = failures + 1
    /\ wait' = backoff
    /\ sleepUntil' = now + backoff
    /\ pcClient' = "sleeping"
    /\ UNCHANGED <<backoff, attempts, listeners, chanOpen, ipcVars, protoVars, appVars, concVars, runVars, lsnVars, now>>

\* The sleep runs to its end (the clock of this component moves only here);
\* then backoff doubles if it is below the cap.
SleepDone ==
    /\ pcClient = "sleeping"
    /\ now' = sleepUntil
    /\ backoff' = IF backoff < BackoffCap THEN backoff * 2 ELSE backoff
    /\ pcClient' = "loop"
    /\ UNCHANGED <<sleepUntil, wait, failures, attempts, listeners, chanOpen,
                   storeVars, ipcVars, protoVars, appVars, concVars, runVars, lsnVars>>

\* connectOnce returned nil: backoff is reset and the loop blocks on
\* <-ctx.Done().
ConnectSucceeded ==
    /\ pcClient = "succeeded"
    /\ backoff' = BackoffStart
    /\ failures' = 0
    /\ pcClient' = "connected"
    /\ UNCHANGED <<sleepUntil, wait, attempts, listeners, chanOpen,
                   storeVars, ipcVars, protoVars, appVars, concVars, runVars, lsnVars, now>>

\* <-ctx.Done() returns: ConnectAndListen returns nil.
ClientReturn ==
    /\ pcClient = "connected"
    /\ ctxDone
    /\ pcClient' = "exited"
    /\ UNCHANGED <<backoff, sleepUntil, wait, failures, attempts, listeners, chanOpen,
                   storeVars, ipcVars, protoVars, appVars, concVars, runVars, lsnVars, now>>

\* The connection or the subscription behind a channel closes.
ChannelClose(ch) ==
    /\ chanOpen[ch]
    /\ chanOpen' = [chanOpen EXCEPT ![ch] = FALSE]
    /\ UNCHANGED <<pcClient, backoff, sleepUntil, wait, failures, attempts, listeners,
                   storeVars, ipcVars, protoVars, appVars, concVars, runVars, lsnVars, now>>

\* listenChannel reads from a closed channel: sets connected to false and
\* returns.
ListenerClosed(ch) ==
    /\ listeners[ch] = "running"
    /\ ~chanOpen[ch]
    /\ SetConnected(FALSE)
    /\ listeners' = [listeners EXCEPT ![ch] = "exited"]
    /\ UNCHANGED <<pcClient, backoff, sleepUntil, wait, failures, attempts, chanOpen,
                   ipcVars, protoVars, appVars, concVars, runVars, lsnVars, now>>

\* listenChannel sees the cancellation and returns.
ListenerCancelled(ch) ==
    /\ listeners[ch] = "running"
    /\ ctxDone
    /\ listeners' = [listeners EXCEPT ![ch] = "exited"]
    /\ UNCHANGED <<pcClient, backoff, sleepUntil, wait, failures, attempts, chanOpen,
                   storeVars, ipcVars, protoVars, appVars, concVars, runVars, lsnVars, now>>

ClientStep ==
    \/ \E o \in Outcomes : ConnectOnce(o)
    \/ LoopExit
    \/ ConnectFailed
    \/ SleepDone
    \/ ConnectSucceeded
    \/ ClientReturn

ListenerStep ==
    \/ \E ch \in Channels : ListenerClosed(ch)
    \/ \E ch \in Channels : ListenerCancelled(ch)

InitPusher ==
    /\ StoreInit
    /\ IPCInit
    /\ ProtoInit
    /\ PusherInit
    /\ AppInit
    /\ ConcInit
    /\ ListenInit
    /\ RunInit
    /\ now = 0

NextPusher ==
    \/ \E o \in Outcomes : ConnectOnce(o)
    \/ LoopExit
    \/ ConnectFailed
    \/ SleepDone
    \/ ConnectSucceeded
    \/ ClientReturn
    \/ \E ch \in Channels : ChannelClose(ch)
    \/ \E ch \in Channels : ListenerClosed(ch)
    \/ \E ch \in Channels : ListenerCancelled(ch)
    \/ Cancel

SpecPusher == InitPusher /\ [][NextPusher]_vars

\* The client's loop and its listeners are goroutines the scheduler keeps
\* running; the cancellation and a channel closing are not under the
\* program's control.
SpecPusherFair == SpecPusher /\ WF_vars(ClientStep) /\ WF_vars(ListenerStep)

----------------------------------------------------------------------------
(* The realtime listeners: listenChannel, one task per subscribed channel.
   Events on a channel are numbered in the order of their arrival. *)

\* The server publishes the next event on a subscribed channel.
EventArrives(ch) ==
    /\ chanOpen[ch]
    /\ lsn[ch].sent < MaxArrivals
    /\ lsn' = [lsn EXCEPT ![ch].sent = @ + 1,
                          ![ch].queue = Append(@, lsn[ch].sent + 1)]
    /\ UNCHANGED <<storeVars, ipcVars, protoVars, pusherVars, appVars, concVars,
                   runVars, now>>

\* listenChannel altered to hand each event to a goroutine of its own.
ListenerTakeAsync(ch) ==
    /\ listeners[ch] = "running"
    /\ lsn[ch].queue # <<>>
    /\ lsn' = [lsn EXCEPT ![ch].queue = Tail(@),
                          ![ch].busy = @ \cup {Head(lsn[ch].queue)},
                          ![ch].log = Append(@, [e |-> Head(lsn[ch].queue),
                                                 what |-> "start"])]
    /\ UNCHANGED <<storeVars, ipcVars, protoVars, pusherVars, appVars, concVars,
                   runVars, now>>

\* listenChannel's select receives the oldest event of its channel and
\* calls handleRawEvent; the loop is inside that call until it returns.
ListenerTake(ch) ==
    /\ listeners[ch] = "running"
    /\ lsn[ch].busy = {}
    /\ lsn[ch].queue # <<>>
    /\ lsn' = [lsn EXCEPT ![ch].queue = Tail(@),
                          ![ch].busy = {Head(lsn[ch].queue)},
                          ![ch].log = Append(@, [e |-> Head(lsn[ch].queue),
                                                 what |-> "start"])]
    /\ UNCHANGED <<storeVars, ipcVars, protoVars, pusherVars, appVars, concVars,
                   runVars, now>>

\* handleRawEvent returns for event e of channel ch.
HandlerReturn(ch, e) ==
    /\ e \in lsn[ch].busy
    /\ lsn' = [lsn EXCEPT ![ch].busy = @ \ {e},
                          ![ch].log = Append(@, [e |-> e, what |-> "return"])]
    /\ UNCHANGED <<storeVars, ipcVars, protoVars, pusherVars, appVars, concVars,
                   runVars, now>>

\* A listener that is not inside a handler is at its select.
AtSelect(ch) == lsn[ch].busy = {}

InitListen ==
    /\ StoreInit
    /\ IPCInit
    /\ ProtoInit
    /\ PusherInit
    /\ AppInit
    /\ ConcInit
    /\ ListenInit
    /\ RunInit
    /\ now = 0

NextListen ==
    \/ \E o \in Outcomes : ConnectOnce(o)
    \/ LoopExit
    \/ ConnectFailed
    \/ SleepDone
    \/ ConnectSucceeded
    \/ ClientReturn
    \/ \E ch \in Channels : ChannelClose(ch)
    \/ \E ch \in Channels : EventArrives(ch)
    \/ \E ch \in Channels : ListenerTake(ch)
    \/ \E ch \in Channels, e \in 1..MaxArrivals : HandlerReturn(ch, e)
    \/ \E ch \in Channels : AtSelect(ch) /\ lsn[ch].queue = <<>> /\ ListenerClosed(ch)
    \/ \E ch \in Channels : AtSelect(ch) /\ ListenerCancelled(ch)
    \/ Cancel

SpecListen == InitListen /\ [][NextListen]_vars

----------------------------------------------------------------------------
(* Claims about the Realtime Channel Client *)

RECURSIVE Pow2(_)
Pow2(n) == IF n <= 0 THEN 1 ELSE 2 * Pow2(n - 1)

Min(a, b) == IF a < b THEN a ELSE b

\* C7 (as claimed): the sleep after the n-th consecutive failed attempt lasts
\* min(2^(n-1), 30) seconds.
C7_BackoffSequence ==
    pcClient = "sleeping" => wait = Min(Pow2(failures - 1), BackoffCap)

ClosedAfterSuccess == \E ch \in Channels : listeners[ch] # "none" /\ ~chanOpen[ch]

\* C8 (as claimed): once a channel of an established connection has closed,
\* and unless the process is cancelled, connected is set to false and a new
\* connection attempt follows.
C8_ReconnectsAfterClose ==
    \A n \in 1..(MaxAttempts - 1) :
        (attempts = n /\ ClosedAfterSuccess /\ ~ctxDone)
            ~> ((~connected /\ attempts > n) \/ ctxDone)

----------------------------------------------------------------------------
(* App: the heartbeat loop and the watchdog (main.go), API.Heartbeat *)

HeartbeatResults == {"sendError", "badStatus", "ok"}

\* The heartbeat tick altered to store the measured ping whatever the status
\* of the response.
HeartbeatTickStoresAnyPing(res, p, saved) ==
    /\ ~ctxDone
    /\ now = hbNext
    /\ hbNext' = hbNext + HeartbeatPeriod
    /\ IF res # "sendError"
       THEN /\ SetPing(p)
            /\ savedFile' = IF res = "ok" /\ saved THEN <<Snapshot'>> ELSE savedFile
       ELSE UNCHANGED <<storeVars, savedFile>>
    /\ UNCHANGED <<wdNext, notifiers, notified, events, ipcVars, protoVars, pusherVars, concVars, runVars, lsnVars, now>>

\* One tick of the heartbeat loop.  API.Heartbeat calls SetPing only on a 200
\* response; the loop then saves the snapshot (the save itself can fail).
HeartbeatTick(res, p, saved) ==
    /\ ~ctxDone
    /\ now = hbNext
    /\ hbNext' = hbNext + HeartbeatPeriod
    /\ IF res = "ok"
       THEN /\ SetPing(p)
            /\ savedFile' = IF saved THEN <<Snapshot'>> ELSE savedFile
       ELSE UNCHANGED <<storeVars, savedFile>>
    /\ UNCHANGED <<wdNext, notifiers, notified, events, ipcVars, protoVars, pusherVars, concVars, runVars, lsnVars, now>>

\* The watchdog altered never to mark the client disconnected.
WatchdogTickNeverDrops ==
    /\ ~ctxDone
    /\ now = wdNext
    /\ wdNext' = wdNext + WatchdogPeriod
    /\ IF now - Snapshot.LastHeartbeat > WatchdogThreshold
       THEN UNCHANGED storeVars
       ELSE IF ~Snapshot.Connected THEN SetConnected(TRUE) ELSE UNCHANGED storeVars
    /\ UNCHANGED <<hbNext, savedFile, notifiers, notified, events,
                   ipcVars, protoVars, pusherVars, concVars, runVars, lsnVars, now>>

\* One tick of the watchdog.
WatchdogTick ==
    /\ ~ctxDone
    /\ now = wdNext
    /\ wdNext' = wdNext + WatchdogPeriod
    /\ IF now - Snapshot.LastHeartbeat > WatchdogThreshold
       THEN IF Snapshot.Connected THEN SetConnected(FALSE) ELSE UNCHANGED storeVars
       ELSE IF ~Snapshot.Connected THEN SetConnected(TRUE) ELSE UNCHANGED storeVars
    /\ UNCHANGED <<hbNext, savedFile, notifiers, notified, events,
                   ipcVars, protoVars, pusherVars, concVars, runVars, lsnVars, now>>

\* A second passes; a ticker that is due fires first.
TickApp ==
    /\ now < MaxAppClock
    /\ ctxDone \/ (now < hbNext /\ now < wdNext)
    /\ now' = now + 1
    /\ UNCHANGED <<storeVars, ipcVars, protoVars, pusherVars, appVars, concVars, runVars, lsnVars>>

InitApp ==
    /\ StoreInit
    /\ IPCInit
    /\ ProtoInit
    /\ PusherInit
    /\ AppInit
    /\ ConcInit
    /\ ListenInit
    /\ RunInit
    /\ now = 0

NextApp ==
    \/ \E res \in HeartbeatResults, p \in Pings, saved \in BOOLEAN :
          HeartbeatTick(res, p, saved)
    \/ WatchdogTick
    \/ TickApp

SpecApp == InitApp /\ [][NextApp]_vars

----------------------------------------------------------------------------
(* Handlers.Swap *)

SwapTimes == {0, 3}

SwapPayloads ==
    [parsed : BOOLEAN, round : {7}, swapAt : SwapTimes, game : Games \cup {""}]

\* Handlers.Swap altered to check the game name only, not the swap time.
SwapIgnoresSwapTime(d) ==
    /\ events < MaxEvents
    /\ events' = events + 1
    /\ IF ~d.parsed \/ d.game = ""
       THEN UNCHANGED <<storeVars, conns, notifiers>>
       ELSE /\ wmu = 0
            /\ \E ok \in BOOLEAN :
                  conns' = WriteLine(conn, 0, <<"SWAP", d.swapAt, d.game>>, ok)
            /\ SetCurrentGame(d.game)
            /\ notifiers' = Append(notifiers,
                              [round |-> d.round, swapAt |-> d.swapAt, pc |-> "ready"])
    /\ UNCHANGED <<conn, listening, ctxDone, wmu, senders, hbNext, wdNext, savedFile,
                   notified, protoVars, pusherVars, concVars, runVars, lsnVars, now>>

\* Handlers.Swap: a payload that does not parse, or lacks the game or the
\* time, is dropped; otherwise SWAP is sent (SendSwap logs a failure), the
\* current game is set and the goroutine that calls SwapComplete is started.
Swap(d) ==
    /\ events < MaxEvents
    /\ events' = events + 1
    /\ IF ~d.parsed \/ d.game = "" \/ d.swapAt = 0
       THEN UNCHANGED <<storeVars, conns, notifiers>>
       ELSE /\ wmu = 0
            /\ \E ok \in BOOLEAN :
                  conns' = WriteLine(conn, 0, <<"SWAP", d.swapAt, d.game>>, ok)
            /\ SetCurrentGame(d.game)
            /\ notifiers' = Append(notifiers,
                              [round |-> d.round, swapAt |-> d.swapAt, pc |-> "ready"])
    /\ UNCHANGED <<conn, listening, ctxDone, wmu, senders, hbNext, wdNext, savedFile,
                   notified, protoVars, pusherVars, concVars, runVars, lsnVars, now>>

\* The notification goroutine altered to try again after a failed attempt.
NotifySwapCompleteRetries(i, ok) ==
    /\ i \in DOMAIN notifiers
    /\ notifiers[i].pc = "ready"
    /\ notifiers' = [notifiers EXCEPT ![i].pc = IF ok THEN "done" ELSE "ready"]
    /\ notified' = Append(notified,
                     [round |-> notifiers[i].round, swapAt |-> notifiers[i].swapAt,
                      at |-> now, ok |-> ok])
    /\ UNCHANGED <<hbNext, wdNext, savedFile, events,
                   storeVars, ipcVars, protoVars, pusherVars, concVars, runVars, lsnVars, now>>

\* The goroutine started by Swap calls api.SwapComplete; it does not wait.
NotifySwapComplete(i, ok) ==
    /\ i \in DOMAIN notifiers
    /\ notifiers[i].pc = "ready"
    /\ notifiers' = [notifiers EXCEPT ![i].pc = "done"]
    /\ notified' = Append(notified,
                     [round |-> notifiers[i].round, swapAt |-> notifiers[i].swapAt,
                      at |-> now, ok |-> ok])
    /\ UNCHANGED <<hbNext, wdNext, savedFile, events,
                   storeVars, ipcVars, protoVars, pusherVars, concVars, runVars, lsnVars, now>>

TickSwap ==
    /\ now < MaxSwapClock
    /\ now' = now + 1
    /\ UNCHANGED <<storeVars, ipcVars, protoVars, pusherVars, appVars, concVars, runVars, lsnVars>>

InitSwap ==
    /\ StoreInit
    /\ IPCInit
    /\ ProtoInit
    /\ PusherInit
    /\ AppInit
    /\ ConcInit
    /\ ListenInit
    /\ RunInit
    /\ now = 0

NextSwap ==
    \/ Accept
    \/ \E c \in 1..MaxConns : PeerClose(c)
    \/ \E c \in 1..MaxConns : ReaderError(c)
    \/ \E d \in SwapPayloads : Swap(d)
    \/ \E i \in 1..MaxEvents, ok \in BOOLEAN : NotifySwapComplete(i, ok)
    \/ TickSwap

SpecSwap == InitSwap /\ [][NextSwap]_vars

----------------------------------------------------------------------------
(* Command protocol: HELLO/SYNC and correlated commands with retry.  The
   transport revision that App.Run constructs with the store
   (NewBizhawkIPC(port, state)) and that Handlers calls SendSync on is not
   among the sources; these definitions follow the written description of
   the protocol. *)

Verbs == {"PAUSE"}

SyncLine == <<"SYNC", Snapshot.CurrentGame, Snapshot.State, Snapshot.StateAt>>

CmdLine(id, verb) == <<"CMD", id, verb>>

\* The accept altered to keep the pending commands of the old connection.
AcceptKeepsPending ==
    /\ listening = "running"
    /\ Len(conns) < MaxConns
    /\ conns' = Append(IF conn # 0 THEN CloseConn(conns, conn) ELSE conns,
                  [open |-> TRUE, peerOpen |-> TRUE, reader |-> "running", wire |-> <<>>])
    /\ conn' = Len(conns) + 1
    /\ UNCHANGED <<listening, ctxDone, wmu, senders, pending, nextID, cmds, resendNext,
                   hellos, acks, storeVars, pusherVars, appVars, concVars, runVars, lsnVars, now>>

\* Accepting a connection closes the previous one and abandons its pending
\* commands.
AcceptAbandon ==
    /\ listening = "running"
    /\ Len(conns) < MaxConns
    /\ conns' = Append(IF conn # 0 THEN CloseConn(conns, conn) ELSE conns,
                  [open |-> TRUE, peerOpen |-> TRUE, reader |-> "running", wire |-> <<>>])
    /\ conn' = Len(conns) + 1
    /\ pending' = {}
    /\ UNCHANGED <<listening, ctxDone, wmu, senders, nextID, cmds, resendNext, hellos, acks,
                   storeVars, pusherVars, appVars, concVars, runVars, lsnVars, now>>

\* The reader of connection c receives HELLO: SYNC, built from a snapshot of
\* the store, is written to the connection.
Hello(c) ==
    /\ c \in DOMAIN conns
    /\ conns[c].reader = "running"
    /\ conns[c].open /\ conns[c].peerOpen
    /\ wmu = 0
    /\ hellos < MaxHellos
    /\ hellos' = hellos + 1
    /\ conns' = WriteLine(c, "hello", SyncLine, TRUE)
    /\ UNCHANGED <<conn, listening, ctxDone, wmu, senders, pending, nextID, cmds,
                   resendNext, acks, storeVars, pusherVars, appVars, concVars, runVars, lsnVars, now>>

StatePayloads == [parsed : BOOLEAN, state : Phases, stateAt : {0, 5}]

\* ChnageGameState altered to send SYNC before it stores the new state.
ChnageGameStateSyncFirst(d) ==
    /\ events < MaxEvents
    /\ events' = events + 1
    /\ IF ~d.parsed \/ d.stateAt = 0
       THEN UNCHANGED <<storeVars, conns>>
       ELSE /\ wmu = 0
            /\ \E ok \in BOOLEAN : conns' = WriteLine(conn, "sync", SyncLine, ok)
            /\ SetState(d.stateAt, d.state)
    /\ UNCHANGED <<conn, listening, ctxDone, wmu, senders, hbNext, wdNext, savedFile,
                   notifiers, notified, protoVars, pusherVars, concVars, runVars, lsnVars, now>>

\* Handlers.ChnageGameState: a payload that does not parse or has no time is
\* dropped; otherwise the store's scheduled state is set and SYNC is sent.
ChnageGameState(d) ==
    /\ events < MaxEvents
    /\ events' = events + 1
    /\ IF ~d.parsed \/ d.stateAt = 0
       THEN UNCHANGED <<storeVars, conns>>
       ELSE /\ wmu = 0
            /\ SetState(d.stateAt, d.state)
            /\ \E ok \in BOOLEAN : conns' = WriteLine(conn, "sync", SyncLine', ok)
    /\ UNCHANGED <<conn, listening, ctxDone, wmu, senders, hbNext, wdNext, savedFile,
                   notifiers, notified, protoVars, pusherVars, concVars, runVars, lsnVars, now>>

\* The caller blocked on command id is handed an outcome.
Resolve(cs, id, outcome) ==
    [k \in DOMAIN cs |->
        IF cs[k].id = id /\ cs[k].pc = "waiting"
        THEN [cs[k] EXCEPT !.pc = outcome, !.doneAt = now]
        ELSE cs[k]]

\* sendCommand: without a connection the error is returned at once;
\* otherwise an id is allocated, the pending entry registered with its retry
\* budget, the line written and the caller left waiting.
SendCommand(verb) ==
    /\ wmu = 0
    /\ IF conn = 0
       THEN /\ cmds' = Append(cmds, [id |-> 0, pc |-> "notConnected", c |-> 0,
                                     sentAt |-> now, doneAt |-> now])
            /\ UNCHANGED <<pending, nextID, conns>>
       ELSE /\ cmds' = Append(cmds, [id |-> nextID, pc |-> "waiting", c |-> conn,
                                     sentAt |-> now, doneAt |-> 0])
            /\ pending' = pending \cup {[id |-> nextID, verb |-> verb, c |-> conn,
                                         retries |-> MaxRetries, lastSend |-> now]}
            /\ nextID' = nextID + 1
            /\ \E ok \in BOOLEAN :
                  conns' = WriteLine(conn, "send", CmdLine(nextID, verb), ok)
    /\ UNCHANGED <<conn, listening, ctxDone, wmu, senders, resendNext, hellos, acks,
                   storeVars, pusherVars, appVars, concVars, runVars, lsnVars, now>>

Received(c, id) ==
    \E i \in DOMAIN conns[c].wire :
        conns[c].wire[i].line[1] = "CMD" /\ conns[c].wire[i].line[2] = id

AckKinds == {"acked", "nacked"}

\* AckLine altered to complete the oldest pending command whatever the id.
AckLineOldestPending(c, id, kind) ==
    /\ c \in DOMAIN conns
    /\ conns[c].reader = "running"
    /\ conns[c].open /\ conns[c].peerOpen
    /\ Received(c, id)
    /\ \E p \in pending : p.id = id
    /\ LET old == CHOOSE q \in pending : \A r \in pending : q.id <= r.id
       IN  /\ pending' = pending \ {old}
           /\ cmds' = Resolve(cmds, old.id, kind)
    /\ acks' = Append(acks, [c |-> c, id |-> id, kind |-> kind])
    /\ UNCHANGED <<ipcVars, nextID, resendNext, hellos,
                   storeVars, pusherVars, appVars, concVars, runVars, lsnVars, now>>

\* The reader of connection c receives ACK|id or NACK|id for a command the
\* emulator was sent: the pending entry is destroyed and its caller released.
AckLine(c, id, kind) ==
    /\ c \in DOMAIN conns
    /\ conns[c].reader = "running"
    /\ conns[c].open /\ conns[c].peerOpen
    /\ Received(c, id)
    /\ \E p \in pending : p.id = id
    /\ pending' = {p \in pending : p.id # id}
    /\ cmds' = Resolve(cmds, id, kind)
    /\ acks' = Append(acks, [c |-> c, id |-> id, kind |-> kind])
    /\ UNCHANGED <<ipcVars, nextID, resendNext, hellos,
                   storeVars, pusherVars, appVars, concVars, runVars, lsnVars, now>>

\* The reader of connection c receives ACK|id or NACK|id with an id that is
\* not pending (unknown, completed or abandoned): the line is ignored.
AckStray(c, id, kind) ==
    /\ c \in DOMAIN conns
    /\ conns[c].reader = "running"
    /\ conns[c].open /\ conns[c].peerOpen
    /\ ~\E p \in pending : p.id = id
    /\ Len(acks) < MaxAcks
    /\ acks' = Append(acks, [c |-> c, id |-> id, kind |-> kind])
    /\ UNCHANGED <<ipcVars, pending, nextID, cmds, resendNext, hellos,
                   storeVars, pusherVars, appVars, concVars, runVars, lsnVars, now>>

\* The 5 second overall wait of a blocked caller runs out.
AckTimeout(k) ==
    /\ k \in DOMAIN cmds
    /\ cmds[k].pc = "waiting"
    /\ now - cmds[k].sentAt >= AckWait
    /\ cmds' = [cmds EXCEPT ![k].pc = "timeout", ![k].doneAt = now]
    /\ UNCHANGED <<ipcVars, pending, nextID, resendNext, hellos, acks,
                   storeVars, pusherVars, appVars, concVars, runVars, lsnVars, now>>

RECURSIVE Rewrite(_, _, _)
\* The lines of the entries ps written to the live connection, in id order.
Rewrite(cs, ps, ok) ==
    IF ps = {} \/ conn = 0 THEN cs
    ELSE LET p == CHOOSE q \in ps : \A r \in ps : q.id <= r.id
             c == IF WriteOK(conn, ok)
                  THEN [cs EXCEPT ![conn].wire =
                           Append(@, [by |-> "resend", line |-> CmdLine(p.id, p.verb)])]
                  ELSE cs
         IN  Rewrite(c, ps \ {p}, ok)

RECURSIVE ResolveAll(_, _, _)
ResolveAll(cs, ps, outcome) ==
    IF ps = {} THEN cs
    ELSE LET p == CHOOSE q \in ps : TRUE
         IN  ResolveAll(Resolve(cs, p.id, outcome), ps \ {p}, outcome)

\* The resend task altered to do nothing.
ResendTickIdle ==
    /\ ~ctxDone
    /\ now = resendNext
    /\ resendNext' = resendNext + ResendInterval
    /\ UNCHANGED <<ipcVars, pending, nextID, cmds, hellos, acks,
                   storeVars, pusherVars, appVars, concVars, runVars, lsnVars, now>>

\* One tick of the resend task.  An entry last sent more than the resend
\* interval ago is due; one last sent exactly the interval ago is due or not
\* (the tick and the send read the clock separately).  A due entry with retry
\* budget is rewritten, one without is failed with a synthetic NACK.
ResendTick ==
    /\ ~ctxDone
    /\ now = resendNext
    /\ wmu = 0
    /\ resendNext' = resendNext + ResendInterval
    /\ \E edge \in SUBSET {p \in pending : now - p.lastSend = ResendInterval},
          ok \in BOOLEAN :
          LET due == edge \cup {p \in pending : now - p.lastSend > ResendInterval}
              again == {p \in due : p.retries > 0}
              spent == {p \in due : p.retries = 0}
          IN  /\ pending' = (pending \ due) \cup
                               {[p EXCEPT !.retries = @ - 1, !.lastSend = now] : p \in again}
              /\ conns' = Rewrite(conns, again, ok)
              /\ cmds' = ResolveAll(cmds, spent, "failed")
    /\ UNCHANGED <<conn, listening, ctxDone, wmu, senders, nextID, hellos, acks,
                   storeVars, pusherVars, appVars, concVars, runVars, lsnVars, now>>

\* A second passes; a timer that is due fires first.
TickProto ==
    /\ now < MaxProtoClock
    /\ now < resendNext
    /\ \A k \in DOMAIN cmds : cmds[k].pc = "waiting" => now - cmds[k].sentAt < AckWait
    /\ now' = now + 1
    /\ UNCHANGED <<storeVars, ipcVars, protoVars, pusherVars, appVars, concVars, runVars, lsnVars>>

InitProto ==
    /\ StoreInit
    /\ IPCInit
    /\ ProtoInit
    /\ PusherInit
    /\ AppInit
    /\ ConcInit
    /\ ListenInit
    /\ RunInit
    /\ now = 0

NextProto ==
    \/ AcceptAbandon
    \/ \E c \in 1..MaxConns : PeerClose(c)
    \/ \E c \in 1..MaxConns : ReaderError(c)
    \/ \E verb \in Verbs : Len(cmds) < MaxCmds /\ SendCommand(verb)
    \/ \E c \in 1..MaxConns, id \in 1..MaxCmds, kind \in AckKinds : AckLine(c, id, kind)
    \/ \E k \in 1..MaxCmds : AckTimeout(k)
    \/ ResendTick
    \/ TickProto

SpecProto == InitProto /\ [][NextProto]_vars

InitAck ==
    /\ StoreInit
    /\ IPCInit
    /\ ProtoInit
    /\ PusherInit
    /\ AppInit
    /\ ConcInit
    /\ ListenInit
    /\ RunInit
    /\ now = 0

NextAck ==
    \/ AcceptAbandon
    \/ \E c \in 1..MaxConns : PeerClose(c)
    \/ \E c \in 1..MaxConns : ReaderError(c)
    \/ \E verb \in Verbs : Len(cmds) < MaxAckCmds /\ SendCommand(verb)
    \/ \E c \in 1..MaxConns, id \in 1..MaxAckCmds, kind \in AckKinds : AckLine(c, id, kind)
    \/ \E c \in 1..MaxConns, id \in 1..(MaxAckCmds + 1), kind \in AckKinds :
          AckStray(c, id, kind)

SpecAck == InitAck /\ [][NextAck]_vars

InitSync ==
    /\ StoreInit
    /\ IPCInit
    /\ ProtoInit
    /\ PusherInit
    /\ AppInit
    /\ ConcInit
    /\ ListenInit
    /\ RunInit
    /\ now = 0

NextSync ==
    \/ AcceptAbandon
    \/ \E c \in 1..MaxConns : PeerClose(c)
    \/ \E c \in 1..MaxConns : ReaderError(c)
    \/ \E c \in 1..MaxConns : Hello(c)
    \/ \E d \in StatePayloads : ChnageGameState(d)
    \/ \E g \in Games : nCalls < MaxCalls /\ SetCurrentGame(g) /\ UNCHANGED nonStoreVars

SpecSync == InitSync /\ [][NextSync]_vars

----------------------------------------------------------------------------
(* The process: NewApp, App.Run, Shutdown, and the handlers' dispatcher.  The
   emulator lines of this section are written by the SendLine of
   bizhawk_ipc.go, one attempt each; a line is a tuple of its fields. *)

\* runtime_state.json as a previous run left it.
SavedSnapshot ==
    [Ping |-> 7, Connected |-> TRUE, CurrentGame |-> "g1",
     LastHeartbeat |-> 5, Ready |-> TRUE, StateAt |-> 5, State |-> "swap"]

WriteLineOn(cs, c, by, line, ok) ==
    IF WriteOK(c, ok)
    THEN [cs EXCEPT ![c].wire = Append(@, [by |-> by, line |-> line])]
    ELSE cs

\* LoadFromFile altered to keep the ping it had decoded when the rest of the
\* file does not parse.
LoadFromFileKeepsPartial(parses) ==
    /\ proc = "running"
    /\ runPc = "load"
    /\ IF savedFile = <<>>
       THEN /\ loadErr' = "open"
            /\ UNCHANGED storeVars
       ELSE IF ~parses
       THEN /\ loadErr' = "decode"
            /\ ping' = savedFile[1].Ping
            /\ UNCHANGED <<connected, currentGame, lastHeartbeat, ready, startAt,
                           stateAt, state, chans, subs, nCalls>>
       ELSE /\ loadErr' = Nil
            /\ ping' = savedFile[1].Ping
            /\ connected' = savedFile[1].Connected
            /\ currentGame' = savedFile[1].CurrentGame
            /\ lastHeartbeat' = savedFile[1].LastHeartbeat
            /\ ready' = savedFile[1].Ready
            /\ startAt' = ZeroTime
            /\ UNCHANGED <<stateAt, state, chans, subs, nCalls>>
    /\ runPc' = "run"
    /\ UNCHANGED <<proc, exitBy, kick, dropped,
                   ipcVars, protoVars, pusherVars, appVars, concVars, lsnVars, now>>

\* NewApp calls LoadFromFile and only logs its error.  The file fails to
\* open when it is missing and fails to decode when it does not parse; the
\* decoder fills a local snapshot, and the fields are assigned, with no
\* event, only after both succeeded.  The file holds no start time, so the
\* start time is reset.
LoadFromFile(parses) ==
    /\ proc = "running"
    /\ runPc = "load"
    /\ IF savedFile = <<>>
       THEN /\ loadErr' = "open"
            /\ UNCHANGED storeVars
       ELSE IF ~parses
       THEN /\ loadErr' = "decode"
            /\ UNCHANGED storeVars
       ELSE /\ loadErr' = Nil
            /\ ping' = savedFile[1].Ping
            /\ connected' = savedFile[1].Connected
            /\ currentGame' = savedFile[1].CurrentGame
            /\ lastHeartbeat' = savedFile[1].LastHeartbeat
            /\ ready' = savedFile[1].Ready
            /\ startAt' = ZeroTime
            /\ UNCHANGED <<stateAt, state, chans, subs, nCalls>>
    /\ runPc' = "run"
    /\ UNCHANGED <<proc, exitBy, kick, dropped,
                   ipcVars, protoVars, pusherVars, appVars, concVars, lsnVars, now>>

\* App.Run up to the launch of the emulator: a failed Bootstrap makes Run
\* return an error, which main answers with log.Fatalf; otherwise the
\* listener, heartbeat, watchdog and realtime goroutines are started.
RunStart(bootOk) ==
    /\ proc = "running"
    /\ runPc = "run"
    /\ IF bootOk
       THEN /\ runPc' = "launch"
            /\ listening' = "starting"
            /\ UNCHANGED <<proc, exitBy>>
       ELSE /\ proc' = "exited"
            /\ exitBy' = "bootstrap"
            /\ UNCHANGED <<runPc, listening>>
    /\ UNCHANGED <<conn, conns, ctxDone, wmu, senders, loadErr, kick, dropped,
                   storeVars, protoVars, pusherVars, appVars, concVars, lsnVars, now>>

\* The listener goroutine: net.Listen binds the port or fails; Listen
\* returns the failure and the goroutine logs it.
ListenBind(ok) ==
    /\ proc = "running"
    /\ listening = "starting"
    /\ listening' = IF ok THEN "running" ELSE "failed"
    /\ UNCHANGED <<conn, conns, ctxDone, wmu, senders, nonIPCVars>>

\* LaunchBizHawk: a failure makes Run return an error.
LaunchBizHawk(ok) ==
    /\ proc = "running"
    /\ runPc = "launch"
    /\ IF ok
       THEN /\ runPc' = "ready"
            /\ UNCHANGED <<proc, exitBy>>
       ELSE /\ proc' = "exited"
            /\ exitBy' = "launch"
            /\ UNCHANGED runPc
    /\ UNCHANGED <<loadErr, kick, dropped,
                   storeVars, ipcVars, protoVars, pusherVars, appVars, concVars, lsnVars, now>>

ReadyResults == {"sendError", "badStatus", "decodeError", "ok"}

\* api.Ready: any failure is returned and makes Run return an error; on a
\* decoded 200 response SetReady(true), SetCurrentGame and SetState are
\* called in this order.
Ready(res, g, t, st) ==
    /\ proc = "running"
    /\ runPc = "ready"
    /\ IF res = "ok"
       THEN /\ ready' = TRUE
            /\ currentGame' = g
            /\ stateAt' = t
            /\ state' = st
            /\ chans' = notify(notify(notify(notify(chans,
                          StateEvent("ready_changed", BoolV(ready), BoolV(TRUE))),
                          StateEvent("current_game_changed", StrV(currentGame), StrV(g))),
                          StateEvent("state_time_changed", TimeV(stateAt), TimeV(t))),
                          StateEvent("state_changed", StrV(state), TimeV(t)))
            /\ nCalls' = nCalls + 3
            /\ runPc' = "welcome"
            /\ UNCHANGED <<ping, connected, lastHeartbeat, startAt, subs, proc, exitBy>>
       ELSE /\ proc' = "exited"
            /\ exitBy' = "ready"
            /\ UNCHANGED <<storeVars, runPc>>
    /\ UNCHANGED <<loadErr, kick, dropped,
                   ipcVars, protoVars, pusherVars, appVars, concVars, lsnVars, now>>

\* handleInitialStartState and SendMessage("Welcome"); Run then blocks on
\* <-ctx.Done().
Welcome(ok1, ok2) ==
    /\ proc = "running"
    /\ runPc = "welcome"
    /\ wmu = 0
    /\ conns' = WriteLineOn(
                  IF startAt = ZeroTime THEN conns
                  ELSE WriteLineOn(conns, conn, 0, <<"START">>, ok1),
                  conn, 0, <<"MSG", "Welcome">>, ok2)
    /\ runPc' = "serving"
    /\ UNCHANGED <<conn, listening, ctxDone, wmu, senders, proc, exitBy, loadErr, kick,
                   dropped, storeVars, protoVars, pusherVars, appVars, concVars, lsnVars, now>>

\* Run wakes from <-ctx.Done() and returns Shutdown(): the state is saved
\* (the save can fail) and main returns.
Shutdown(saved) ==
    /\ proc = "running"
    /\ runPc = "serving"
    /\ ctxDone
    /\ savedFile' = IF saved THEN <<Snapshot>> ELSE savedFile
    /\ proc' = "exited"
    /\ exitBy' = "shutdown"
    /\ UNCHANGED <<runPc, loadErr, kick, dropped, hbNext, wdNext, notifiers, notified,
                   events, storeVars, ipcVars, protoVars, pusherVars, concVars, lsnVars, now>>

\* The case labels of handleRawEvent's switch.
EventTypes ==
    {"swap", "download_rom", "download_lua", "message", "kick",
     "change_game_state", "session_ended", "prepare_swap", "clear_saves"}

\* A raw event: is the outer value a JSON string, does that string decode
\* into a WSMessage object, and what is its type.
Envelopes ==
    [outer : {"string", "other"}, inner : {"object", "other"},
     type : EventTypes \cup {"", "bogus"}]

Undecodable(e) == e.outer # "string" \/ e.inner # "object"

\* The event is logged and handleRawEvent returns.
Drop ==
    /\ events < MaxEvents
    /\ events' = events + 1
    /\ dropped' = dropped + 1
    /\ UNCHANGED <<proc, exitBy, runPc, loadErr, kick, hbNext, wdNext, savedFile,
                   notifiers, notified,
                   storeVars, ipcVars, protoVars, pusherVars, concVars, lsnVars, now>>

\* Handlers.ServerMessage: a payload that parses is forwarded as MSG.
ServerMessage(parsed, ok) ==
    /\ events < MaxEvents
    /\ events' = events + 1
    /\ IF parsed
       THEN /\ wmu = 0
            /\ conns' = WriteLineOn(conns, conn, 0, <<"MSG", "text">>, ok)
       ELSE UNCHANGED conns
    /\ UNCHANGED <<conn, listening, ctxDone, wmu, senders, hbNext, wdNext, savedFile,
                   notifiers, notified,
                   storeVars, protoVars, pusherVars, concVars, runVars, lsnVars, now>>

\* Handlers.PrepareSwap: a payload that parses is forwarded as SAVE.
PrepareSwap(parsed, ok) ==
    /\ events < MaxEvents
    /\ events' = events + 1
    /\ IF parsed
       THEN /\ wmu = 0
            /\ conns' = WriteLineOn(conns, conn, 0, <<"SAVE", "path">>, ok)
       ELSE UNCHANGED conns
    /\ UNCHANGED <<conn, listening, ctxDone, wmu, senders, hbNext, wdNext, savedFile,
                   notifiers, notified,
                   storeVars, protoVars, pusherVars, concVars, runVars, lsnVars, now>>

\* SessionEnded altered to return without the game-stopped notification
\* when the PAUSE cannot be sent.
SessionEndedGivesUp(ok1, ok2, okApi) ==
    /\ events < MaxEvents
    /\ events' = events + 1
    /\ wmu = 0
    /\ SetConnected(FALSE)
    /\ conns' = WriteLineOn(WriteLineOn(conns, conn, 0, <<"MSG", "Session ended">>, ok1),
                            conn, 0, <<"PAUSE">>, ok2)
    /\ notified' = IF WriteOK(conn, ok2)
                   THEN Append(notified,
                               [round |-> 0, swapAt |-> 0, at |-> now, ok |-> okApi])
                   ELSE notified
    /\ UNCHANGED <<conn, listening, ctxDone, wmu, senders, hbNext, wdNext, savedFile,
                   notifiers, protoVars, pusherVars, concVars, runVars, lsnVars, now>>

\* Handlers.SessionEnded: SetConnected(false), MSG, PAUSE, then the
\* game-stopped notification, recorded in notified with round 0.
SessionEnded(ok1, ok2, okApi) ==
    /\ events < MaxEvents
    /\ events' = events + 1
    /\ wmu = 0
    /\ SetConnected(FALSE)
    /\ conns' = WriteLineOn(WriteLineOn(conns, conn, 0, <<"MSG", "Session ended">>, ok1),
                            conn, 0, <<"PAUSE">>, ok2)
    /\ notified' = Append(notified, [round |-> 0, swapAt |-> 0, at |-> now, ok |-> okApi])
    /\ UNCHANGED <<conn, listening, ctxDone, wmu, senders, hbNext, wdNext, savedFile,
                   notifiers, protoVars, pusherVars, concVars, runVars, lsnVars, now>>

\* Handlers.DownloadROM, DownloadLua and ClearSaves work on files of the
\* ROM, script and save directories only.
FileHandler ==
    /\ events < MaxEvents
    /\ events' = events + 1
    /\ UNCHANGED <<hbNext, wdNext, savedFile, notifiers, notified,
                   storeVars, ipcVars, protoVars, pusherVars, concVars, runVars, lsnVars, now>>

\* Handlers.Kick, entered: the payload's parse error is ignored.
KickBegin ==
    /\ events < MaxEvents
    /\ events' = events + 1
    /\ kick' = [pc |-> "message", sends |-> <<>>]
    /\ UNCHANGED <<proc, exitBy, runPc, loadErr, dropped, hbNext, wdNext, savedFile,
                   notifiers, notified,
                   storeVars, ipcVars, protoVars, pusherVars, concVars, lsnVars, now>>

\* Kick altered to go straight to the exit when the message cannot be sent.
KickMessageGivesUp(ok) ==
    /\ proc = "running"
    /\ kick.pc = "message"
    /\ wmu = 0
    /\ conns' = WriteLineOn(conns, conn, 0, <<"MSG", "Kicked: ">>, ok)
    /\ kick' = [pc |-> IF WriteOK(conn, ok) THEN "pause" ELSE "exit",
                sends |-> Append(kick.sends, [verb |-> "MSG", ok |-> WriteOK(conn, ok)])]
    /\ UNCHANGED <<conn, listening, ctxDone, wmu, senders, proc, exitBy, runPc, loadErr,
                   dropped, storeVars, protoVars, pusherVars, appVars, concVars, lsnVars, now>>

\* Kick: SendMessage("Kicked: " + reason); a failure is logged by SendMessage.
KickMessage(ok) ==
    /\ proc = "running"
    /\ kick.pc = "message"
    /\ wmu = 0
    /\ conns' = WriteLineOn(conns, conn, 0, <<"MSG", "Kicked: ">>, ok)
    /\ kick' = [pc |-> "pause",
                sends |-> Append(kick.sends, [verb |-> "MSG", ok |-> WriteOK(conn, ok)])]
    /\ UNCHANGED <<conn, listening, ctxDone, wmu, senders, proc, exitBy, runPc, loadErr,
                   dropped, storeVars, protoVars, pusherVars, appVars, concVars, lsnVars, now>>

\* Kick: SendPause(nil); a failure is logged by SendPause.
KickPause(ok) ==
    /\ proc = "running"
    /\ kick.pc = "pause"
    /\ wmu = 0
    /\ conns' = WriteLineOn(conns, conn, 0, <<"PAUSE">>, ok)
    /\ kick' = [pc |-> "exit",
                sends |-> Append(kick.sends, [verb |-> "PAUSE", ok |-> WriteOK(conn, ok)])]
    /\ UNCHANGED <<conn, listening, ctxDone, wmu, senders, proc, exitBy, runPc, loadErr,
                   dropped, storeVars, protoVars, pusherVars, appVars, concVars, lsnVars, now>>

\* Kick: os.Exit(1).
KickExit ==
    /\ proc = "running"
    /\ kick.pc = "exit"
    /\ proc' = "exited"
    /\ exitBy' = "kick"
    /\ kick' = [kick EXCEPT !.pc = "done"]
    /\ UNCHANGED <<runPc, loadErr, dropped,
                   storeVars, ipcVars, protoVars, pusherVars, appVars, concVars, lsnVars, now>>

KickStep == (\E ok \in BOOLEAN : KickMessage(ok) \/ KickPause(ok)) \/ KickExit

\* The switch of handleRawEvent on a decoded envelope.
Dispatch(e) ==
    \/ e.type = "swap" /\ \E d \in SwapPayloads : Swap(d)
    \/ e.type \in {"download_rom", "download_lua", "clear_saves"} /\ FileHandler
    \/ e.type = "message" /\ \E parsed, ok \in BOOLEAN : ServerMessage(parsed, ok)
    \/ e.type = "kick" /\ KickBegin
    \/ e.type = "change_game_state" /\ \E d \in StatePayloads : ChnageGameState(d)
    \/ e.type = "session_ended" /\ \E ok1, ok2, okApi \in BOOLEAN : SessionEnded(ok1, ok2, okApi)
    \/ e.type = "prepare_swap" /\ \E parsed, ok \in BOOLEAN : PrepareSwap(parsed, ok)

\* handleRawEvent altered to treat an unknown type as a kick.
HandleRawEventKicksUnknown(e) ==
    /\ proc = "running"
    /\ runPc \in {"launch", "ready", "welcome", "serving"}
    /\ kick.pc = "idle"
    /\ IF Undecodable(e)
       THEN Drop
       ELSE IF e.type \notin EventTypes THEN KickBegin ELSE Dispatch(e)

\* handleRawEvent, called by a realtime listener for each event: an outer
\* value that is no JSON string, an inner text that is no WSMessage, and a
\* type without a case are logged and dropped.
HandleRawEvent(e) ==
    /\ proc = "running"
    /\ runPc \in {"launch", "ready", "welcome", "serving"}
    /\ kick.pc = "idle"
    /\ IF Undecodable(e) \/ e.type \notin EventTypes
       THEN Drop
       ELSE Dispatch(e)

\* NewApp has made the store and is about to load the runtime state.
InitRun ==
    /\ StoreInit
    /\ conn = 0
    /\ conns = <<>>
    /\ listening = "idle"
    /\ ctxDone = FALSE
    /\ wmu = 0
    /\ senders = [s \in 1..MaxSenders |-> [pc |-> "idle", c |-> 0, line |-> "", result |-> "", seq |-> 0]]
    /\ ProtoInit
    /\ PusherInit
    /\ hbNext = HeartbeatPeriod
    /\ wdNext = WatchdogPeriod
    /\ savedFile \in {<<>>, <<SavedSnapshot>>}
    /\ notifiers = <<>>
    /\ notified = <<>>
    /\ events = 0
    /\ ConcInit
    /\ ListenInit
    /\ proc = "running"
    /\ exitBy = ""
    /\ runPc = "load"
    /\ loadErr = Nil
    /\ kick = [pc |-> "idle", sends |-> <<>>]
    /\ dropped = 0
    /\ now = 0

NextRun ==
    \/ \E parses \in BOOLEAN : LoadFromFile(parses)
    \/ \E bootOk \in BOOLEAN : RunStart(bootOk)
    \/ \E ok \in BOOLEAN : ListenBind(ok)
    \/ \E ok \in BOOLEAN : LaunchBizHawk(ok)
    \/ \E res \in ReadyResults, g \in Games \cup {""}, t \in Instants, st \in Phases :
          Ready(res, g, t, st)
    \/ \E ok1, ok2 \in BOOLEAN : Welcome(ok1, ok2)
    \/ proc = "running" /\ runPc \in {"launch", "ready", "welcome", "serving"} /\ Cancel
    \/ \E saved \in BOOLEAN : Shutdown(saved)
    \/ proc = "running" /\ Len(conns) < MaxRunConns /\ Accept
    \/ proc = "running" /\ ListenReturn
    \/ proc = "running" /\ \E c \in 1..MaxRunConns : PeerClose(c)
    \/ proc = "running" /\ \E c \in 1..MaxRunConns : ReaderError(c)
    \/ \E e \in Envelopes : HandleRawEvent(e)
    \/ \E ok \in BOOLEAN : KickMessage(ok)
    \/ \E ok \in BOOLEAN : KickPause(ok)
    \/ KickExit
    \/ proc = "running" /\ \E i \in 1..MaxEvents, ok \in BOOLEAN : NotifySwapComplete(i, ok)

SpecRun == InitRun /\ [][NextRun]_vars

\* Handlers.Kick, once entered, runs on.
SpecRunFair == SpecRun /\ WF_vars(KickStep)

----------------------------------------------------------------------------
(* Claims about the process: startup, termination and the dispatcher *)

C17_LoadStep ==
    (runPc = "load" /\ runPc' # "load" /\ loadErr' # Nil) =>
        /\ UNCHANGED storeVars
        /\ proc' = "running"
        /\ runPc' = "run"

C17_DefaultsAfterFailedLoad ==
    (runPc = "run" /\ loadErr # Nil) =>
        /\ ping = 0 /\ ~connected /\ currentGame = "" /\ lastHeartbeat = ZeroTime
        /\ ~ready /\ startAt = ZeroTime /\ stateAt = ZeroTime /\ state = ""

\* C17: the step in which LoadFromFile returns an error, the file missing or
\* not parsing, changes no field of the store and leaves the process running
\* with App.Run next; the store then still holds its defaults.
C17_FailedLoadLeavesDefaults == []C17_DefaultsAfterFailedLoad /\ [][C17_LoadStep]_vars

\* C17 witness: a file that exists but does not parse was met at startup,
\* the store kept its default ping, and startup went on to serve.
C17_Witness ==
    /\ loadErr = "decode"
    /\ savedFile = <<SavedSnapshot>>
    /\ ping = 0
    /\ runPc = "serving"
    /\ proc = "running"

\* C11: the process has ended whenever the listener failed to bind, and a
\* process that has ended was ended by a kick, by the failed bind, by a
\* failed bootstrap before anything was started, or by the shutdown signal.
C11_OnlyKickAndBindAreFatal ==
    /\ listening = "failed" => proc = "exited"
    /\ proc = "exited" => exitBy \in {"kick", "bind", "bootstrap", "shutdown"}

C19_ExitAfterBothAttempts ==
    /\ kick.pc \in {"exit", "done"} =>
          /\ Len(kick.sends) = 2
          /\ kick.sends[1].verb = "MSG"
          /\ kick.sends[2].verb = "PAUSE"
    /\ exitBy = "kick" => kick.pc = "done"

\* C19: the process is ended by a kick only after Kick has attempted the
\* message and then the PAUSE, and a Kick that has begun leads to the end
\* of the process whatever the connection's state and the sends' outcomes.
C19_KickSendsThenTerminates ==
    /\ []C19_ExitAfterBothAttempts
    /\ (kick.pc = "message") ~> (proc = "exited")

\* C19 witness: a kick ended the process although no emulator was connected
\* and both sends failed.
C19_Witness ==
    /\ exitBy = "kick"
    /\ conn = 0
    /\ Len(kick.sends) = 2
    /\ ~kick.sends[1].ok
    /\ ~kick.sends[2].ok

C20_DropStep ==
    \A e \in Envelopes :
        ((Undecodable(e) \/ e.type \notin EventTypes) /\ HandleRawEvent(e)) =>
            /\ UNCHANGED <<storeVars, ipcVars, protoVars>>
            /\ UNCHANGED <<notifiers, notified, savedFile>>
            /\ UNCHANGED <<proc, exitBy, runPc, kick>>
            /\ proc' = "running"

\* C20: a step of handleRawEvent on an envelope whose outer value is no JSON
\* string, whose inner text is no object, or whose type has no case changes
\* no field of the store, writes nothing to the emulator, starts and makes no
\* server notification, and leaves the process running.
C20_BadEventIsDropped == [][C20_DropStep]_vars

\* C20 witness: an event was dropped while the emulator was connected, and
\* the next event was handled and reached the emulator.
C20_Witness ==
    /\ dropped = 1
    /\ events = 2
    /\ proc = "running"
    /\ conn # 0
    /\ \E i \in DOMAIN conns[conn].wire : conns[conn].wire[i].line = <<"MSG", "text">>

----------------------------------------------------------------------------
(* Claims about the heartbeat, the watchdog and the swap handler *)

LastWatchdogTick == wdNext - WatchdogPeriod

\* C9: the watchdog's tick is never late; once a tick has fired more than 15
\* seconds after the last successful heartbeat, connected is false; once a
\* tick has fired after a successful heartbeat and within 15 seconds of it,
\* connected is true.  So connected is false from 5 seconds after the
\* threshold was crossed, and true from 5 seconds after a success until the
\* threshold.
C9_WatchdogFollowsHeartbeat ==
    /\ now <= wdNext /\ wdNext - now <= WatchdogPeriod
    /\ LastWatchdogTick - lastHeartbeat > WatchdogThreshold => ~connected
    /\ (/\ LastWatchdogTick > lastHeartbeat
        /\ LastWatchdogTick - lastHeartbeat <= WatchdogThreshold) => connected
    /\ now - lastHeartbeat > WatchdogThreshold + WatchdogPeriod => ~connected
    /\ (/\ now - lastHeartbeat > WatchdogPeriod
        /\ now - lastHeartbeat <= WatchdogThreshold) => connected

\* C9 witness: the heartbeat at 10 s succeeded and none since; a watchdog
\* tick more than 15 s later has fired and connected, true in between, is
\* false.
C9_Witness ==
    /\ lastHeartbeat = HeartbeatPeriod
    /\ LastWatchdogTick - lastHeartbeat > WatchdogThreshold
    /\ ~connected
    /\ nCalls >= 3

IsSwapLine(w, d) == w.line = <<"SWAP", d.swapAt, d.game>>

\* C10 (as claimed): a valid swap event writes SWAP (time, game) to the live
\* connection and sets the current game in the same step, and no
\* swap-complete attempt is made before the swap's target time.
C10_SwapStep ==
    \A d \in SwapPayloads :
        (Swap(d) /\ d.parsed /\ d.game # "" /\ d.swapAt # 0) =>
            /\ currentGame' = d.game
            /\ (conn # 0 /\ conns[conn].peerOpen) =>
                  /\ Len(conns'[conn].wire) = Len(conns[conn].wire) + 1
                  /\ IsSwapLine(conns'[conn].wire[Len(conns'[conn].wire)], d)

C10_NotBeforeTarget ==
    \A i \in DOMAIN notified : notified[i].at >= notified[i].swapAt

C10_SwapThenNotifyAtTarget == []C10_NotBeforeTarget /\ [][C10_SwapStep]_vars

----------------------------------------------------------------------------
(* Claims about the command protocol *)

IsHelloSync(w) == w.by = "hello" /\ w.line[1] = "SYNC"

HelloSyncsOn(c) ==
    Cardinality({i \in DOMAIN conns[c].wire : IsHelloSync(conns[c].wire[i])})

RECURSIVE HelloSyncsUpTo(_)
HelloSyncsUpTo(n) == IF n = 0 THEN 0 ELSE HelloSyncsOn(n) + HelloSyncsUpTo(n - 1)

HelloSyncs == HelloSyncsUpTo(Len(conns))

C5_SyncPerHello == HelloSyncs = hellos

C5_HelloStep ==
    hellos' = hellos + 1 =>
        \E c \in DOMAIN conns :
            /\ conns[c].reader = "running"
            /\ conns' = [conns EXCEPT ![c].wire =
                           Append(@, [by |-> "hello",
                                      line |-> <<"SYNC", currentGame, state, stateAt>>])]
            /\ UNCHANGED <<currentGame, state, stateAt>>

Transmissions(p) ==
    Cardinality({i \in DOMAIN conns[p.c].wire :
                    conns[p.c].wire[i].line = CmdLine(p.id, p.verb)})

----------------------------------------------------------------------------
(* Claims about the heartbeat loop *)

\* C15: a heartbeat tick whose request fails or is answered with a status
\* other than 200 leaves every field of the store and the saved file as they
\* were; a tick answered with 200 stores the ping, stamps the heartbeat time
\* with the current time, leaves connected alone and, when the save
\* succeeds, the saved file holds the snapshot taken after the update.
C15_HeartbeatStep ==
    \A res \in HeartbeatResults, p \in Pings, saved \in BOOLEAN :
        HeartbeatTick(res, p, saved) =>
            IF res = "ok"
            THEN /\ ping' = p
                 /\ lastHeartbeat' = now
                 /\ connected' = connected
                 /\ saved => /\ savedFile' # <<>>
                             /\ savedFile'[1].Ping = p
                             /\ savedFile'[1].LastHeartbeat = now
                             /\ savedFile'[1].Connected = connected
                 /\ ~saved => savedFile' = savedFile
            ELSE /\ UNCHANGED <<ping, lastHeartbeat, connected, currentGame, ready,
                                startAt, stateAt, state, chans, subs>>
                 /\ savedFile' = savedFile

C15_SavedOnlyAfterSuccess ==
    /\ savedFile # <<>> => /\ savedFile[1].Ping \in Pings
                           /\ savedFile[1].LastHeartbeat >= HeartbeatPeriod
                           /\ savedFile[1].LastHeartbeat <= lastHeartbeat
    /\ lastHeartbeat = ZeroTime => ping = 0 /\ savedFile = <<>>

C15_OnlySuccessUpdates == []C15_SavedOnlyAfterSuccess /\ [][C15_HeartbeatStep]_vars

\* C15 witness: the heartbeat at 10 s succeeded and was saved, the one at
\* 20 s failed: ping and heartbeat time are those of 10 s and the saved file
\* is the snapshot of 10 s.
C15_Witness ==
    /\ hbNext = 3 * HeartbeatPeriod
    /\ lastHeartbeat = HeartbeatPeriod
    /\ ping = 7
    /\ savedFile # <<>>
    /\ savedFile[1].LastHeartbeat = HeartbeatPeriod

----------------------------------------------------------------------------
(* Claims about the realtime client's shutdown *)

\* C14 (as claimed): a client that leaves its backoff wait after the
\* cancellation leaves it before the end of the interval, and no connection
\* attempt is made after the cancellation.
C14_CancelledStep ==
    /\ (pcClient = "sleeping" /\ ctxDone /\ pcClient' # "sleeping") => now' < sleepUntil
    /\ ctxDone => attempts' = attempts

C14_CancelAbortsBackoff == [][C14_CancelledStep]_vars

----------------------------------------------------------------------------
(* Claims about pending commands and acknowledgments *)

CmdOn(c, id) ==
    \E i \in DOMAIN conns[c].wire :
        conns[c].wire[i].line[1] = "CMD" /\ conns[c].wire[i].line[2] = id

C12_OnlyOnItsConnection ==
    /\ conn # 0 => \A p \in pending : p.c = conn
    /\ \A k \in DOMAIN cmds, c \in DOMAIN conns :
          (cmds[k].id # 0 /\ c # cmds[k].c) => ~CmdOn(c, cmds[k].id)

C12_ReplacedStep ==
    \A k \in DOMAIN cmds :
        (cmds[k].pc = "waiting" /\ cmds[k].c # conn) =>
            cmds'[k].pc \in {"waiting", "timeout", "failed"}

LastAck == acks'[Len(acks')]

C13_AckStep ==
    IF Len(acks') = Len(acks) + 1
    THEN /\ pending' = {p \in pending : p.id # LastAck.id}
         /\ cmds' = [k \in DOMAIN cmds |->
                       IF /\ cmds[k].id = LastAck.id
                          /\ cmds[k].pc = "waiting"
                          /\ \E p \in pending : p.id = LastAck.id
                       THEN [cmds[k] EXCEPT !.pc = LastAck.kind, !.doneAt = now]
                       ELSE cmds[k]]
    ELSE \A k \in DOMAIN cmds :
             cmds'[k].pc \in AckKinds => cmds'[k] = cmds[k]

----------------------------------------------------------------------------
(* Claims about the State Store under concurrent callers *)

C16_SnapshotStep ==
    /\ \A i \in DOMAIN snaps : i \in DOMAIN snaps' /\ snaps'[i] = snaps[i]
    /\ Len(snaps') = Len(snaps) + 1 =>
          snaps'[Len(snaps')] =
              [Ping |-> ping, Connected |-> connected, CurrentGame |-> currentGame,
               LastHeartbeat |-> lastHeartbeat, Ready |-> ready,
               StateAt |-> stateAt, State |-> state]

C16_NotTorn ==
    \A i \in DOMAIN snaps : (snaps[i].Ping = 0) = (snaps[i].LastHeartbeat = ZeroTime)

\* C16: the snapshot a Snapshot call returns holds, field by field, the
\* values of the store at the instant of the copy; it never shows the ping
\* of a SetPing call without that call's heartbeat time; and a snapshot that
\* has been returned is never changed by a later step.
C16_SnapshotIsConsistentCopy == []C16_NotTorn /\ [][C16_SnapshotStep]_vars

\* C16 witness: a snapshot from before a SetPing call, one from after it, and
\* a later SetConnected(true) that neither of them shows.
C16_Witness ==
    /\ Len(snaps) = 2
    /\ snaps[1].Ping = 0
    /\ snaps[2].Ping = 7 /\ snaps[2].LastHeartbeat = now
    /\ ~snaps[2].Connected
    /\ connected

C18_ClosedIsUnregistered ==
    /\ ~panicked
    /\ \A ch \in DOMAIN chans :
          chans[ch].closed => /\ ch \notin subs
                              /\ \A t \in Threads : ch \notin thr[t].todo

C18_ClosedStep ==
    \A ch \in DOMAIN chans :
        chans[ch].closed => /\ chans'[ch].closed
                            /\ Len(chans'[ch].q) <= Len(chans[ch].q)
                            /\ subs' \cap {ch} = {}

\* C18: no send on a closed channel and no second close ever happens; a
\* closed channel is registered nowhere, not even in a notification under
\* way; and once a channel is closed it stays closed and unregistered and
\* nothing more is queued on it.
C18_NoDeliveryAfterUnsubscribe == []C18_ClosedIsUnregistered /\ [][C18_ClosedStep]_vars

\* C18 witness: two subscribers with room; the first received the first
\* event and was unsubscribed before the second setter call notified, the
\* second received both events.
C18_Witness ==
    /\ Len(chans) = 2
    /\ chans[1].cap = DefaultBuf /\ chans[1].closed /\ Len(chans[1].q) = 1
    /\ Len(chans[2].q) = 2
    /\ nCalls = 2

----------------------------------------------------------------------------
(* Claims about the State Store *)

Fields ==
    [ping |-> IntV(ping), connected |-> BoolV(connected),
     currentGame |-> StrV(currentGame), ready |-> BoolV(ready),
     startAt |-> TimeV(startAt), stateAt |-> TimeV(stateAt), state |-> StrV(state)]

\* The value, in the record f of field values, of the field an event type is about.
FieldOfEvent(f, typ) ==
    CASE typ = "ping_updated" -> f.ping
      [] typ \in {"connected", "disconnected"} -> f.connected
      [] typ = "current_game_changed" -> f.currentGame
      [] typ = "ready_changed" -> f.ready
      [] typ = "start_time_changed" -> f.startAt
      [] typ = "state_time_changed" -> f.stateAt
      [] typ = "state_changed" -> f.state

SetterStep == nCalls' = nCalls + 1

Full(ch) == Len(chans[ch].q) >= chans[ch].cap

KeepsQueued(ch) ==
    /\ Len(chans'[ch].q) >= Len(chans[ch].q)
    /\ SubSeq(chans'[ch].q, 1, Len(chans[ch].q)) = chans[ch].q

\* C1 (as claimed): every setter call delivers exactly one event to every
\* subscriber with free buffer space, the event's Old being the field's value
\* before the call and its New the value the call wrote.
C1_OneEventPerCall ==
    [][SetterStep =>
        \A ch \in subs :
            ~Full(ch) =>
                /\ Len(chans'[ch].q) = Len(chans[ch].q) + 1
                /\ KeepsQueued(ch)
                /\ LET e == chans'[ch].q[Len(chans'[ch].q)]
                   IN /\ e.Old = FieldOfEvent(Fields, e.Type)
                      /\ e.New = FieldOfEvent(Fields', e.Type)]_vars

\* C2: a setter call is never held up by a subscriber (it can always be
\* taken); it writes its field; a subscriber whose queue is full keeps its
\* queue unchanged (the event is dropped for it) and every subscriber with
\* free space gets the event appended.
C2_SettersEnabled ==
        /\ \A p \in Pings : ENABLED SetPing(p)
        /\ \A c \in BOOLEAN : ENABLED SetConnected(c)
        /\ \A g \in Games : ENABLED SetCurrentGame(g)
        /\ \A r \in BOOLEAN : ENABLED SetReady(r)
        /\ \A t \in Instants : ENABLED SetStartTime(t)
        /\ \A t \in Instants, st \in Phases : ENABLED SetState(t, st)

C2_SetterStep ==
    /\ SetterStep =>
        /\ \A ch \in subs : Full(ch) => chans'[ch] = chans[ch]
        /\ \A ch \in subs :
              ~Full(ch) => /\ Len(chans'[ch].q) > Len(chans[ch].q)
                           /\ KeepsQueued(ch)
        /\ subs' = subs
    /\ \A p \in Pings : SetPing(p) => ping' = p
    /\ \A c \in BOOLEAN : SetConnected(c) => connected' = c
    /\ \A g \in Games : SetCurrentGame(g) => currentGame' = g
    /\ \A r \in BOOLEAN : SetReady(r) => ready' = r
    /\ \A t \in Instants : SetStartTime(t) => startAt' = t
    /\ \A t \in Instants, st \in Phases :
          SetState(t, st) => stateAt' = t /\ state' = st

C2_FullSubscriberDropsOnly == []C2_SettersEnabled /\ [][C2_SetterStep]_vars

\* C2 witness: two setter calls were made; one subscriber with a full queue
\* of one event missed the second event, another subscriber holds both, and
\* the field has the value of the event the first one missed.
C2_Witness ==
    \E a \in subs, b \in subs :
        /\ a # b
        /\ chans[a].cap = 1 /\ Len(chans[a].q) = 1
        /\ nCalls = 2 /\ Len(chans[b].q) = 2
        /\ chans[b].q[1] = chans[a].q[1]
        /\ chans[b].q[2].Type = "disconnected"
        /\ connected = chans[b].q[2].New.b

----------------------------------------------------------------------------
(* Claims about the Command Transport *)

OnWire(s) == \E c \in DOMAIN conns : \E i \in DOMAIN conns[c].wire : conns[c].wire[i].by = s

\* C3: a SendLine call made while b.conn is nil ends in that same step with
\* the "not connected" error: it never waits for or holds the write lock, it
\* writes no line to any connection, and its line is never written later.
C3_RefusedAtOnce ==
    \A s \in DOMAIN senders :
        senders[s].result = NotConnected =>
            /\ senders[s].pc = "done"
            /\ wmu # s
            /\ ~OnWire(s)

C3_BeginStep ==
    \A s \in DOMAIN senders :
        (senders[s].pc = "idle" /\ senders'[s].pc # "idle" /\ conn = 0) =>
            /\ senders'[s].pc = "done"
            /\ senders'[s].result = NotConnected
            /\ conns' = conns
            /\ wmu' = wmu

C3_NotConnectedIsSynchronous == []C3_RefusedAtOnce /\ [][C3_BeginStep]_vars

\* C3 witness: a connection was live and is gone, a send made then was
\* refused, while another sender's line did reach the earlier connection.
C3_Witness ==
    /\ conn = 0
    /\ Len(conns) >= 1
    /\ \E s \in DOMAIN senders, r \in DOMAIN senders :
          /\ senders[s].result = NotConnected
          /\ senders[r].result = Nil
          /\ OnWire(r)

\* C4: every accepted connection other than b.conn is closed on this side
\* and b.conn, when set, is open; accepting a connection makes it b.conn and
\* closes the one that was live.
C4_OnlyLiveOpen ==
    /\ \A c \in DOMAIN conns : conns[c].open => c = conn
    /\ conn # 0 => conn \in DOMAIN conns /\ conns[conn].open

C4_AcceptStep ==
    Len(conns') > Len(conns) =>
        /\ conn' = Len(conns')
        /\ conns'[conn'].open
        /\ conn # 0 => ~conns'[conn].open

C4_OneLiveConnection == []C4_OnlyLiveOpen /\ [][C4_AcceptStep]_vars

\* C4 witness: a second connection was accepted while the first was live and
\* its peer still connected; the first is closed and the second is b.conn.
C4_Witness ==
    /\ Len(conns) = 2
    /\ conn = 2
    /\ listening = "running"
    /\ conns[1].peerOpen /\ ~conns[1].open /\ conns[1].reader = "running"
    /\ conns[2].open


C22_OneWriter ==
    /\ Cardinality({s \in DOMAIN senders : senders[s].pc = "write"}) <= 1
    /\ \A s \in DOMAIN senders : senders[s].pc = "write" <=> wmu = s

C22_WriteStep ==
    \A c \in DOMAIN conns :
        conns'[c].wire # conns[c].wire =>
            /\ wmu # 0
            /\ senders[wmu].pc = "write"
            /\ conns'[c].wire = Append(conns[c].wire, [by |-> wmu, line |-> senders[wmu].line])
            /\ wmu' = 0

\* C22: at most one SendLine call is inside the write at a time, and it is
\* the holder of the write lock; a step that changes what is on a connection
\* appends the holder's one whole line and releases the lock.
C22_WritesAreSerialized == []C22_OneWriter /\ [][C22_WriteStep]_vars

\* C22 witness: one call is inside the write while a second call on the same
\* live connection waits for the lock.
C22_Witness ==
    \E s \in DOMAIN senders, r \in DOMAIN senders :
        /\ senders[s].pc = "write"
        /\ senders[r].pc = "lock"
        /\ senders[r].c = senders[s].c
        /\ senders[s].c = conn
        /\ conn # 0

\* C24: on every connection, a line that stands before another was written
\* by the SendLine call that was invoked before the other's.
C24_WrittenInCallOrder ==
    \A c \in DOMAIN conns :
        \A i \in DOMAIN conns[c].wire, j \in DOMAIN conns[c].wire :
            i < j => senders[conns[c].wire[i].by].seq < senders[conns[c].wire[j].by].seq


\* The field an event type is about.
FieldName(typ) ==
    CASE typ = "ping_updated" -> "ping"
      [] typ \in {"connected", "disconnected"} -> "connected"
      [] typ = "current_game_changed" -> "currentGame"
      [] typ = "ready_changed" -> "ready"
      [] typ = "start_time_changed" -> "startAt"
      [] typ = "state_time_changed" -> "stateAt"
      [] typ = "state_changed" -> "state"
      [] OTHER -> ""

AllFields ==
    [ping |-> IntV(ping), connected |-> BoolV(connected),
     currentGame |-> StrV(currentGame), lastHeartbeat |-> TimeV(lastHeartbeat),
     ready |-> BoolV(ready), startAt |-> TimeV(startAt),
     stateAt |-> TimeV(stateAt), state |-> StrV(state)]

ChangedFields == {f \in DOMAIN AllFields : AllFields'[f] # AllFields[f]}

Appended(ch) == SubSeq(chans'[ch].q, Len(chans[ch].q) + 1, Len(chans'[ch].q))

\* C23 (as claimed): in a step that changes fields of the store, a
\* subscriber with room for two more events is sent exactly one event for
\* each field that changed.
C23_EventForEveryChangedField ==
    [][\A ch \in subs :
         (ChangedFields # {} /\ Len(chans[ch].q) + 2 <= chans[ch].cap) =>
             \A f \in ChangedFields :
                 Cardinality({i \in DOMAIN Appended(ch) :
                                 FieldName(Appended(ch)[i].Type) = f}) = 1]_vars


\* C21 (as claimed): when the process has ended by a kick or by a failure
\* of App.Run after its goroutines were started, the runtime-state file
\* holds the snapshot of the store.  (Shutdown, the normal path, attempts the
\* write, which can fail.)
C21_SavedOnEveryExit ==
    (proc = "exited" /\ exitBy \in {"kick", "launch", "ready"}) =>
        savedFile = <<Snapshot>>


\* C25 (as claimed): when the realtime client sets connected to true, both
\* channels are subscribed and their listeners run.
C25_ConnectedOnlyWhenSubscribed ==
    [][(~connected /\ connected') =>
          \A ch \in Channels : chanOpen'[ch] /\ listeners'[ch] = "running"]_vars

C26_InArrivalOrder ==
    \A ch \in Channels :
        /\ Cardinality(lsn[ch].busy) <= 1
        /\ \A i \in DOMAIN lsn[ch].log :
              lsn[ch].log[i] = [e |-> (i + 1) \div 2,
                                what |-> IF i % 2 = 1 THEN "start" ELSE "return"]

C26_ListenersStartStep ==
    \A ch \in Channels :
        (listeners[ch] # "running" /\ listeners'[ch] = "running") =>
            /\ pcClient' = "succeeded"
            /\ \A d \in Channels : listeners[d] = "none" /\ listeners'[d] = "running"

\* C26: a connection that succeeds starts the listener of each of the two
\* channels, where none was started before; on each channel at most one
\* handler is in progress and the handlers start and return one after the
\* other in the order the events arrived.
C26_OneListenerInOrder == []C26_InArrivalOrder /\ [][C26_ListenersStartStep]_vars

\* C26 witness: the player channel's two events were handled one after the
\* other while the session channel's first handler is still in progress.
C26_Witness ==
    /\ Len(lsn["player"].log) = 4
    /\ lsn["session"].busy = {1}
    /\ lsn["session"].queue = <<2>>


SessionEndedEvents == {e \in Envelopes : ~Undecodable(e) /\ e.type = "session_ended"}

C27_SessionEndedStep ==
    \A e \in SessionEndedEvents :
        HandleRawEvent(e) =>
            /\ ~connected'
            /\ (conn # 0 /\ conns[conn].open /\ conns[conn].peerOpen) =>
                  conns'[conn].wire =
                      conns[conn].wire \o <<[by |-> 0, line |-> <<"MSG", "Session ended">>],
                                           [by |-> 0, line |-> <<"PAUSE">>]>>
            /\ Len(notified') = Len(notified) + 1
            /\ notified'[Len(notified')].round = 0
            /\ proc' = "running"
            /\ UNCHANGED <<exitBy, runPc, kick, notifiers, savedFile>>

\* C27: the step that handles a session_ended event leaves connected false,
\* writes the message and PAUSE to a live connection, makes one game-stopped
\* attempt whatever became of the PAUSE, and leaves the process running.
C27_SessionEndedMarksPausesNotifies == [][C27_SessionEndedStep]_vars

\* C27 witness: the store was connected, no emulator was connected when the
\* session ended, the game-stopped attempt failed too, and the process runs.
C27_Witness ==
    /\ loadErr = Nil /\ ping = 7
    /\ ~connected
    /\ conn = 0 /\ conns = <<>>
    /\ \E i \in DOMAIN notified : notified[i].round = 0 /\ ~notified[i].ok
    /\ proc = "running"


C28_StateEventStep ==
    \A d \in StatePayloads :
        ChnageGameState(d) =>
            IF d.parsed /\ d.stateAt # 0
            THEN /\ state' = d.state
                 /\ stateAt' = d.stateAt
                 /\ (conn # 0 /\ conns[conn].open /\ conns[conn].peerOpen) =>
                       conns'[conn].wire =
                           Append(conns[conn].wire,
                                  [by |-> "sync",
                                   line |-> <<"SYNC", currentGame, d.state, d.stateAt>>])
            ELSE UNCHANGED <<storeVars, conns>>

\* C28: the step that handles a change-game-state event with a time stores
\* the event's phase and time and writes to a live connection one SYNC that
\* carries this phase and time; with no time, or a payload that does not
\* parse, it changes no field and writes nothing.
C28_StateStoredBeforeSync == [][C28_StateEventStep]_vars

\* C28 witness: the second connection carries a SYNC with the phase and the
\* time of an event, the store holds them, and an event without a time was
\* handled too.
C28_Witness ==
    /\ conn = 2
    /\ \E i \in DOMAIN conns[2].wire :
          conns[2].wire[i] = [by |-> "sync", line |-> <<"SYNC", "g1", "swap", 5>>]
    /\ state = "swap" /\ stateAt = 5
    /\ events = 2
    /\ nCalls = 2


Accepted(d) == d.parsed /\ d.game # "" /\ d.swapAt # 0

Attempted == {i \in DOMAIN notifiers : notifiers[i].pc = "done"}

C29_OneAttemptEach ==
    /\ Len(notified) = Cardinality(Attempted)
    /\ Len(notified) <= MaxEvents
    /\ \A i \in DOMAIN notifiers :
          notifiers[i].pc = "ready" => ENABLED (\E ok \in BOOLEAN : NotifySwapComplete(i, ok))

C29_SwapNotifyStep ==
    /\ \A d \in SwapPayloads :
          Swap(d) => Len(notifiers') = Len(notifiers) + (IF Accepted(d) THEN 1 ELSE 0)
    /\ Len(notified') # Len(notified) =>
          /\ Len(notified') = Len(notified) + 1
          /\ Cardinality(Attempted') = Cardinality(Attempted) + 1
          /\ UNCHANGED <<storeVars, ipcVars, proc, exitBy>>
          /\ proc' = "running"

\* C29: an accepted swap event starts one notification task and a rejected
\* one none; a task that has not made its attempt can make it at once; every
\* task makes at most one attempt, and the step of an attempt, successful or
\* not, ends the task, changes no field of the store and leaves the process
\* running.
C29_OneSwapCompleteAttempt == []C29_OneAttemptEach /\ [][C29_SwapNotifyStep]_vars

\* C29 witness: two swaps were accepted; the attempt for the first was made
\* after its target time and failed, the second's succeeded, and nothing
\* more is attempted.
C29_Witness ==
    /\ Len(notifiers) = 2
    /\ Len(notified) = 2
    /\ ~notified[1].ok /\ notified[1].at > notified[1].swapAt
    /\ notified[2].ok
    /\ currentGame = "g1"
    /\ proc = "running"


Notifying(t) == thr[t].pc \in {"notify", "sending"}

IsFull(ch) == Len(chans[ch].q) >= chans[ch].cap

C30_FieldLockFreeWhileNotifying ==
    /\ \A t \in Threads : Notifying(t) => mu # t
    /\ ((\E t \in Threads : Notifying(t)) /\ (\A u \in Threads : thr[u].pc # "stamp")
            /\ Len(snaps) < MaxSnaps)
          => ENABLED SnapshotLocked
    /\ \A t \in Threads : \A ch \in thr[t].todo :
          thr[t].pc = "sending" => ENABLED NotifySend(t, ch)

\* C30: a setter that is notifying, or waiting to notify, does not hold the
\* field lock; while setters notify and none is inside its field update, a
\* Snapshot call can proceed; and the send to any subscriber, full or not,
\* can always be taken.
C30_NotifyOutsideFieldLock == []C30_FieldLockFreeWhileNotifying

\* C30 witness: a SetPing call is in the middle of its notification with a
\* full subscriber still to be served, and a Snapshot call has returned the
\* ping that call wrote.
C30_Witness ==
    \E t \in Threads :
        /\ thr[t].pc = "sending"
        /\ thr[t].ev.Type = "ping_updated"
        /\ \E ch \in thr[t].todo : IsFull(ch)
        /\ \E i \in DOMAIN snaps : snaps[i].Ping = 7

----------------------------------------------------------------------------
(* C31: the transport winds down after the cancellation *)

\* The accept loop's 1 s accept deadline and each reader's 10 s read deadline
\* make every loop come round: an enabled return or exit is taken.
SpecIPCFair ==
    /\ SpecIPC
    /\ WF_vars(ListenReturn)
    /\ \A c \in 1..MaxConns : WF_vars(ReaderError(c)) /\ WF_vars(ReaderTimeout(c))

C31_Stopped ==
    /\ listening = "exited"
    /\ conn = 0
    /\ \A c \in DOMAIN conns : ~conns[c].open /\ conns[c].reader = "exited"

\* The step in which Listen returns closes the live connection and leaves the
\* transport without one.
C31_ReturnStep ==
    (listening = "running" /\ listening' = "exited")
        => /\ ctxDone
           /\ conn' = 0
           /\ \A c \in DOMAIN conns : ~conns'[c].open

\* C31: once the cancellation is raised the accept loop returns, the listener
\* and the live connection are closed, the transport has no connection, and
\* every reader task has terminated; after Listen has returned no connection
\* is live again.
C31_TransportWindsDown ==
    /\ ctxDone ~> C31_Stopped
    /\ [](listening = "exited" => conn = 0)
    /\ [][C31_ReturnStep]_vars

\* Listen has returned while two emulators still held their ends: the first
\* connection was closed by its replacement, the second by the return, and
\* both readers are gone.
C31_Witness ==
    /\ C31_Stopped
    /\ Len(conns) >= 2
    /\ \A c \in DOMAIN conns : conns[c].peerOpen

----------------------------------------------------------------------------
(* C32: SetPing writes the ping and the heartbeat time in one critical section *)

\* Between SetPing's two writes the caller holds s.mu; whenever s.mu is free
\* the two fields belong together; and no snapshot shows a ping without a
\* heartbeat time.
C32_PairedWhenReadable ==
    /\ \A t \in Threads : thr[t].pc = "stamp" => mu = t
    /\ mu = 0 => (ping # 0 => lastHeartbeat # ZeroTime)
    /\ \A i \in DOMAIN snaps : snaps[i].Ping # 0 => snaps[i].LastHeartbeat # ZeroTime

\* The heartbeat time is written only by the SetPing call that holds s.mu and
\* has just written the ping, and that step releases the lock; a step that
\* writes the ping takes the lock and keeps it.
C32_StampStep ==
    /\ lastHeartbeat' # lastHeartbeat =>
          \E t \in Threads : /\ thr[t].pc = "stamp" /\ thr[t].ev.Type = "ping_updated"
                             /\ mu = t /\ mu' = 0
                             /\ ping' = ping
                             /\ lastHeartbeat' = now
    /\ ping' # ping =>
          \E t \in Threads : mu = 0 /\ mu' = t /\ thr'[t].pc = "stamp"

\* C32: SetPing updates the ping and the last-heartbeat time in one critical
\* section, so neither a reader of the fields nor a snapshot sees the new
\* ping with the previous heartbeat time, and no other setter changes the
\* heartbeat time.
C32_PingAndHeartbeatTogether == []C32_PairedWhenReadable /\ [][C32_StampStep]_vars

\* A SetPing call stands between its two writes (new ping, old heartbeat
\* time) after a SetConnected(true) that left the heartbeat time alone; the
\* snapshots taken so far show none of it.
C32_Witness ==
    /\ \E t \in Threads : thr[t].pc = "stamp"
    /\ ping = 7 /\ lastHeartbeat = ZeroTime
    /\ connected
    /\ Len(snaps) = 2
    /\ snaps[2].Connected /\ snaps[2].Ping = 0 /\ snaps[2].LastHeartbeat = ZeroTime

----------------------------------------------------------------------------
(* C33: a subscriber's queue is bounded and drops the newest event when full *)

C33_Bounded ==
    \A ch \in DOMAIN chans :
        /\ chans[ch].cap >= 1
        /\ Len(chans[ch].q) <= chans[ch].cap

C33_IsPrefix(q, r) == Len(q) <= Len(r) /\ \A i \in DOMAIN q : r[i] = q[i]

\* A subscription asked for with a size of zero or less gets room for four
\* events; a channel's size never changes; a step that emits events (a setter
\* call) leaves a full queue exactly as it was and only appends to the others.
C33_QueueStep ==
    /\ \A buf \in 0..MaxBuf :
          Subscribe(buf) => /\ Len(chans') = Len(chans) + 1
                            /\ chans'[Len(chans')].cap = (IF buf <= 0 THEN 4 ELSE buf)
                            /\ chans'[Len(chans')].q = <<>>
    /\ \A ch \in DOMAIN chans :
          /\ chans'[ch].cap = chans[ch].cap
          /\ nCalls' # nCalls =>
                IF Len(chans[ch].q) = chans[ch].cap
                THEN chans'[ch].q = chans[ch].q
                ELSE C33_IsPrefix(chans[ch].q, chans'[ch].q)

----------------------------------------------------------------------------
(* C34: the reader of a replaced connection leaves the live one alone *)

\* The exit of the reader of a connection that is no longer b.conn changes
\* neither b.conn nor the live connection.
C34_StaleReaderStep ==
    \A c \in DOMAIN conns :
        (ReaderError(c) /\ c # conn) =>
            /\ conn' = conn
            /\ conn # 0 => conns'[conn] = conns[conn]

\* The transport goes from connected to not connected only in the exit of the
\* live connection's own reader or in the return of Listen.
C34_ResetStep ==
    (conn # 0 /\ conn' = 0) =>
        \/ conns[conn].reader = "running" /\ conns'[conn].reader = "exited"
        \/ listening = "running" /\ listening' = "exited"

\* C34: a reader whose connection has been replaced, on seeing an error or
\* the end of its stream, neither closes nor clears the live connection; only
\* the live connection's reader, or the shutdown of the accept loop, resets
\* the transport to not connected.
C34_StaleReaderKeepsLive == [][C34_StaleReaderStep /\ C34_ResetStep]_vars

\* The reader of the first connection, closed by its replacement while the
\* emulator still held its end, has exited, and the second connection is
\* still live, open and read.
C34_Witness ==
    /\ Len(conns) >= 2
    /\ ~ctxDone
    /\ conns[1].peerOpen /\ conns[1].reader = "exited"
    /\ conn = 2 /\ conns[2].open /\ conns[2].reader = "running"

----------------------------------------------------------------------------
(* C35: SendLine returns nil only for a write to the live connection *)

\* A call that has returned nil has its line on a connection.
C35_NilIsWritten ==
    \A s \in DOMAIN senders : senders[s].result = Nil => OnWire(s)

\* The step in which a call gets its result: nil only if the connection the
\* call holds is b.conn and open at that moment, and the line is appended to
\* it; a call holding a connection that has been closed or replaced gets the
\* write error and writes nothing.
C35_ResultStep ==
    \A s \in DOMAIN senders :
        (senders[s].pc = "write" /\ senders'[s].pc = "done") =>
            LET c == senders[s].c IN
            /\ senders'[s].result = Nil =>
                  /\ c # 0 /\ c = conn /\ conns[c].open
                  /\ conns'[c].wire =
                        Append(conns[c].wire, [by |-> s, line |-> senders[s].line])
            /\ (c # conn \/ ~conns[c].open) =>
                  /\ senders'[s].result = WriteError
                  /\ conns' = conns

\* C35: a send never reports success for a line written to a connection the
\* transport had already closed or replaced: a nil result means the line was
\* written to the connection that was live at the moment of the write.
C35_NilMeansLiveWrite == []C35_NilIsWritten /\ [][C35_ResultStep]_vars

\* Two calls read the first connection; one wrote its line and got nil, then
\* the connection was replaced, and the other call's write failed.
C35_Witness ==
    \E s \in DOMAIN senders, r \in DOMAIN senders :
        /\ senders[s].c = 1 /\ senders[s].result = Nil
        /\ senders[r].c = 1 /\ senders[r].result = WriteError /\ ~OnWire(r)
        /\ conns[1].peerOpen
        /\ conn = 2

----------------------------------------------------------------------------
(* C36: the order of the events of two concurrent setter calls *)

C36_ConnectedTypes == {"connected", "disconnected"}

\* C36: once two SetConnected calls have both returned, a subscriber that
\* received both of their events holds them in the order in which the field
\* was written: the New value of the last one is the value of the field.
C36_LastEventIsFinalValue ==
    (nCalls = 2 /\ \A t \in Threads : thr[t].pc = "idle") =>
        \A ch \in subs :
            (/\ Len(chans[ch].q) = 2
             /\ chans[ch].q[1].Type \in C36_ConnectedTypes
             /\ chans[ch].q[2].Type \in C36_ConnectedTypes)
                => chans[ch].q[2].New = BoolV(connected)

----------------------------------------------------------------------------
(* The connectivity flag and its writers: the heartbeat loop and the watchdog
   of main.go, ConnectAndListen and listenChannel of pusher_client.go, and
   the session_ended handler, all started by App.Run *)

MaxLinkClock == 10
MaxLinkAttempts == 3
MaxLinkEvents == 1

\* A second passes; a ticker that is due fires first, and so does the end of
\* a backoff sleep.
TickLink ==
    /\ now < MaxLinkClock
    /\ now < hbNext /\ now < wdNext
    /\ pcClient = "sleeping" => now < sleepUntil
    /\ now' = now + 1
    /\ UNCHANGED <<storeVars, ipcVars, protoVars, pusherVars, appVars, concVars, runVars, lsnVars>>

InitLink ==
    /\ StoreInit
    /\ IPCInit
    /\ ProtoInit
    /\ PusherInit
    /\ AppInit
    /\ ConcInit
    /\ ListenInit
    /\ RunInit
    /\ now = 0

NextLink ==
    \/ \E res \in HeartbeatResults, p \in Pings : HeartbeatTick(res, p, TRUE)
    \/ WatchdogTick
    \/ TickLink
    \/ \E o \in Outcomes : attempts < MaxLinkAttempts /\ ConnectOnce(o)
    \/ ConnectFailed
    \/ now = sleepUntil /\ SleepDone
    \/ ConnectSucceeded
    \/ \E ch \in Channels : ChannelClose(ch)
    \/ \E ch \in Channels : ListenerClosed(ch)
    \/ \E okApi \in BOOLEAN : events < MaxLinkEvents /\ SessionEnded(TRUE, TRUE, okApi)

SpecLink == InitLink /\ [][NextLink]_vars

----------------------------------------------------------------------------
(* C37: the watchdog and a connected=false written by somebody else *)

\* The realtime client is down (it is in its backoff after a failed connect,
\* or one of its listeners has returned on a closed channel), or the session
\* has ended.
C37_Down ==
    \/ pcClient = "sleeping"
    \/ \E ch \in Channels : listeners[ch] = "exited"
    \/ \E i \in DOMAIN notified : notified[i].round = 0

\* C37: while the realtime client is down or the session has ended, a tick of
\* the watchdog does not turn connected from false to true.
C37_WatchdogKeepsFalse ==
    [][(wdNext' # wdNext /\ C37_Down /\ ~connected) => ~connected']_vars

----------------------------------------------------------------------------
(* C38: no drop of connected while the channel is up and heartbeats succeed *)

\* The realtime client is connected, both channels are open and read, and no
\* session_ended event has been handled.
C38_RealtimeUp ==
    /\ pcClient \in {"succeeded", "connected"}
    /\ \A ch \in Channels : chanOpen[ch] /\ listeners[ch] = "running"
    /\ notified = <<>>

\* No heartbeat has been due yet, or the latest one succeeded.
C38_HeartbeatsOk ==
    \/ hbNext = HeartbeatPeriod /\ lastHeartbeat = ZeroTime
    \/ lastHeartbeat = hbNext - HeartbeatPeriod

\* C38: while the realtime channel is connected and the heartbeats succeed,
\* no step turns connected from true to false, the time before the first
\* heartbeat included.
C38_NoDropWhileHealthy ==
    [][(C38_RealtimeUp /\ C38_RealtimeUp' /\ C38_HeartbeatsOk /\ connected) => connected']_vars

----------------------------------------------------------------------------
(* C39: an invalid swap event is rejected whole *)

\* Nothing of an invalid swap is ever seen: every SWAP line written names a
\* game and a time, and so does every notification task.
C39_OnlyValidSwaps ==
    /\ \A c \in DOMAIN conns : \A i \in DOMAIN conns[c].wire :
          LET l == conns[c].wire[i].line IN
          l[1] = "SWAP" => l[2] # 0 /\ l[3] # ""
    /\ \A i \in DOMAIN notifiers : notifiers[i].swapAt # 0
    /\ nCalls = Len(notifiers)

\* The handling of a swap event whose payload did not parse, or has no game
\* name, or has a swap time of zero, changes neither a connection, nor the
\* store, nor the notification tasks and their attempts.
C39_RejectStep ==
    \A d \in SwapPayloads :
        (Swap(d) /\ (~d.parsed \/ d.game = "" \/ d.swapAt = 0)) =>
            UNCHANGED <<storeVars, conn, conns, notifiers, notified>>

\* C39: a swap event with an unparsable payload, no game name or a zero swap
\* time is rejected whole: no SWAP command is sent, the current game is not
\* changed and no swap-complete notification is scheduled.
C39_InvalidSwapRejectedWhole == []C39_OnlyValidSwaps /\ [][C39_RejectStep]_vars

\* Two swap events were handled while the emulator was connected, and both
\* were rejected: nothing is on the connection, no game is set, no task runs.
C39_Witness ==
    /\ events = 2
    /\ conn # 0 /\ conns[conn].open /\ conns[conn].peerOpen /\ conns[conn].wire = <<>>
    /\ currentGame = "" /\ nCalls = 0
    /\ notifiers = <<>> /\ notified = <<>>

====
